---- MODULE Spec2Model ----
(***************************************************************************)
(* A model of the Schnapsen rules engine (src/src/schnapsen/game.py and    *)
(* deck.py): the card model, Hand / Talon / Score / BotState / GameState,  *)
(* the move validator, the trick implementer, the trick scorer and the     *)
(* play_game / play_game_from_state loop of GamePlayEngine.                *)
(*                                                                         *)
(* The two agents are the environment: whenever the engine calls get_move  *)
(* the agent may return any well-formed Move.  The last move of the legal   *)
(* list costs nothing; every other answer (legal or not) is a deviation,   *)
(* and a behaviour holds at most MaxDeviations of them.                    *)
(***************************************************************************)
EXTENDS Integers, Sequences, FiniteSets, TLC

\* ------------------------------------------------------------------ bounds
\* number of different shuffles the rng can produce
NumDeals == 4
\* number of get_move answers in one game that differ from the last move of
\* the agent's legal list
MaxDeviations == 1
\* largest direct_points of a GameState handed to declare_winner on its own
MaxPoints == 67
\* number of different states of the Random handed to make_assumption
NumShuffles == 2

\* --------------------------------------------------------------- constants
\* Hand(..., max_size=5)
max_size == 5
\* declare_winner: points needed to win
WinThreshold == 66
\* declare_winner: the follower is "Schneider" below this
SchneiderThreshold == 33

\* ----------------------------------------------------------------- engine
\* the GamePlayEngine in use: its deck generator and trick scorer
VARIABLE engine

\* the GamePlayEngine classes of the repository
Engines ==
    {"SchnapsenGamePlayEngine", "TwentyFourSchnapsenGamePlayEngine",
     "AceOneGamePlayEngine", "NegativeAceGamePlayEngine"}

\* ------------------------------------------------------------- card model
Suit == <<"HEARTS", "CLUBS", "SPADES", "DIAMONDS">>

\* the ranks SchnapsenDeckGenerator puts in the deck, in its order
DeckRanks == <<"JACK", "QUEEN", "KING", "TEN", "ACE">>

get_card(rank, suit) == [rank |-> rank, suit |-> suit]

Range(s) == {s[i] : i \in 1..Len(s)}

\* SchnapsenDeckGenerator.get_initial_deck: for suit in Suit: for rank in ...
get_initial_deck ==
    [i \in 1..20 |-> get_card(DeckRanks[((i - 1) % 5) + 1], Suit[((i - 1) \div 5) + 1])]

\* MyDeckGenerator.get_initial_deck of the 24-card game: the normal deck and
\* then, for suit in Suit, the Nine of the suit
twenty_four_get_initial_deck ==
    get_initial_deck \o [i \in 1..4 |-> get_card("NINE", Suit[i])]

\* engine.deck_generator.get_initial_deck()
deck_generator_get_initial_deck ==
    IF engine = "TwentyFourSchnapsenGamePlayEngine" THEN twenty_four_get_initial_deck
    ELSE get_initial_deck

\* rng.shuffle is a permutation of the deck that depends on the rng only;
\* the rng state is a number and each number selects one permutation.
\* (strides without a common factor with 20 or 24, the two deck sizes)
ShuffleStrides == <<7, 23, 13, 29, 17, 11, 19, 1>>

shuffle_deck(deck, rng) ==
    [i \in 1..Len(deck) |->
        deck[(((i - 1) * ShuffleStrides[(rng % 8) + 1] + 5 * rng + 2) % Len(deck)) + 1]]

\* a deal in blocks: the first five cards to one hand, the next five to the
\* other
generateHands_in_blocks(the_cards) ==
    [hand1 |-> SubSeq(the_cards, 1, 5),
     hand2 |-> SubSeq(the_cards, 6, 10),
     rest  |-> [cards |-> SubSeq(the_cards, 11, Len(the_cards)),
                trump_suit |-> the_cards[Len(the_cards)].suit]]

\* SchnapsenHandGenerator.generateHands
\* (Python indices 0,2,4,6,8 / 1,3,5,7,9 / 10.. are 1-based 1,3,.. / 2,4,.. / 11..)
generateHands(the_cards) ==
    [hand1 |-> [i \in 1..5 |-> the_cards[2 * i - 1]],
     hand2 |-> [i \in 1..5 |-> the_cards[2 * i]],
     rest  |-> [cards |-> SubSeq(the_cards, 11, Len(the_cards)),
                trump_suit |-> the_cards[Len(the_cards)].suit]]

\* ------------------------------------------------------------------ moves
NoMove == [type |-> "None"]

RegularMove(card) == [type |-> "RegularMove", card |-> card]

TrumpExchange(jack) == [type |-> "TrumpExchange", jack |-> jack]

Marriage(queen_card, king_card) ==
    [type |-> "Marriage", queen_card |-> queen_card, king_card |-> king_card]

is_marriage(move) == move.type = "Marriage"

is_trump_exchange(move) == move.type = "TrumpExchange"

\* underlying_regular_move that plays the Queen of the marriage
underlying_regular_move_queen(marriage) == RegularMove(marriage.queen_card)

underlying_regular_move(marriage) == RegularMove(marriage.king_card)

\* every Move object an agent can construct from the cards of the deck
\* (TrumpExchange asserts a Jack; Marriage asserts Queen and King of one suit)
AllMoves ==
    {RegularMove(c) : c \in Range(deck_generator_get_initial_deck)}
    \cup {TrumpExchange(get_card("JACK", s)) : s \in Range(Suit)}
    \cup {Marriage(get_card("QUEEN", s), get_card("KING", s)) : s \in Range(Suit)}

\* ------------------------------------------------------------------- Hand
\* list.remove: drops the first occurrence
RECURSIVE Hand_remove(_, _)
Hand_remove(cards, card) ==
    IF cards = <<>> THEN <<>>
    ELSE IF Head(cards) = card THEN Tail(cards)
    ELSE <<Head(cards)>> \o Hand_remove(Tail(cards), card)

Hand_add(cards, card) == Append(cards, card)

filter_suit(cards, suit) == SelectSeq(cards, LAMBDA c : c.suit = suit)

filter_rank(cards, rank) == SelectSeq(cards, LAMBDA c : c.rank = rank)

\* ------------------------------------------------------------------ Talon
\* Talon.__init__ that reads the trump suit off the top card of the talon
Talon_top_suit(cards, suit) ==
    [cards |-> cards, trump_suit |-> IF cards # <<>> THEN cards[1].suit ELSE suit]

\* Talon.__init__(cards, trump_suit): with cards the trump suit is the suit
\* of the bottommost card, without cards it is the suit given ("None": none)
Talon(cards, suit) ==
    [cards |-> cards, trump_suit |-> IF cards # <<>> THEN cards[Len(cards)].suit ELSE suit]

\* the two assertions of Talon.__init__
Talon_init_ok(cards, suit) ==
    IF cards # <<>> THEN suit = "None" \/ cards[Len(cards)].suit = suit
    ELSE suit # "None"

\* Talon.copy
Talon_copy(talon) == Talon(talon.cards, talon.trump_suit)

Talon_is_empty(talon) == Len(talon.cards) = 0

Talon_trump_card(talon) == talon.cards[Len(talon.cards)]

\* the assertions of an exchange that is content with one card on the talon
Talon_trump_exchange_ok_one_card(talon, new_trump) ==
    /\ new_trump.rank = "JACK"
    /\ Len(talon.cards) >= 1
    /\ new_trump.suit = talon.cards[Len(talon.cards)].suit

\* Talon.trump_exchange: the three assertions, then swap the bottom card
Talon_trump_exchange_ok(talon, new_trump) ==
    /\ new_trump.rank = "JACK"
    /\ Len(talon.cards) >= 2
    /\ new_trump.suit = talon.cards[Len(talon.cards)].suit

\* an exchange that puts the new card on top and takes the old trump away
Talon_trump_exchange_on_top(talon, new_trump) ==
    [talon EXCEPT !.cards = <<new_trump>> \o SubSeq(talon.cards, 1, Len(talon.cards) - 1)]

Talon_trump_exchange(talon, new_trump) ==
    [talon EXCEPT !.cards = Append(SubSeq(talon.cards, 1, Len(talon.cards) - 1), new_trump)]

Talon_draw_cards_ok(talon, amount) == Len(talon.cards) >= amount

\* draw_cards that hands out the top cards and leaves them on the talon
Talon_draw_cards_keep(talon, amount) ==
    [draw  |-> SubSeq(talon.cards, 1, amount),
     talon |-> talon]

\* draw_cards that hands out the top cards lowest first
Talon_draw_cards_reversed(talon, amount) ==
    [draw  |-> [i \in 1..amount |-> talon.cards[amount + 1 - i]],
     talon |-> [talon EXCEPT !.cards = SubSeq(talon.cards, amount + 1, Len(talon.cards))]]

\* draw_cards that hands out the top cards and takes one card less off the talon
Talon_draw_cards_one_less(talon, amount) ==
    [draw  |-> SubSeq(talon.cards, 1, amount),
     talon |-> [talon EXCEPT !.cards = SubSeq(talon.cards, amount, Len(talon.cards))]]

Talon_draw_cards(talon, amount) ==
    [draw  |-> SubSeq(talon.cards, 1, amount),
     talon |-> [talon EXCEPT !.cards = SubSeq(talon.cards, amount + 1, Len(talon.cards))]]

\* ------------------------------------------------------------------ Score
Score(direct_points, pending_points) ==
    [direct_points |-> direct_points, pending_points |-> pending_points]

\* an addition that leaves the pending points of the right operand out
Score_add_direct_only(a, b) ==
    Score(a.direct_points + b.direct_points, a.pending_points)

\* Score.__add__
Score_add(a, b) ==
    Score(a.direct_points + b.direct_points, a.pending_points + b.pending_points)

\* redeem_pending_points that drops the pending points
redeem_pending_points_discard(s) == Score(s.direct_points, 0)

redeem_pending_points(s) == Score(s.direct_points + s.pending_points, 0)

\* ------------------------------------------------- BotState and GameState
BotState(implementation, hand) ==
    [implementation |-> implementation, hand |-> hand,
     score |-> Score(0, 0), won_cards |-> <<>>]

NoPrevious == [trick |-> [type |-> "None"]]

trump_suit(game_state) == game_state.talon.trump_suit

copy_for_next(game_state) ==
    [game_state EXCEPT !.talon = Talon_copy(game_state.talon), !.previous = NoPrevious]

\* a copy that leaves the bots in their seats
copy_keeping_bots(game_state, new_leader, new_follower) ==
    [game_state EXCEPT !.talon = Talon_copy(game_state.talon)]

\* GameState.copy_with_other_bots
copy_with_other_bots(game_state, new_leader, new_follower) ==
    [leader   |-> [game_state.leader EXCEPT !.implementation = new_leader],
     follower |-> [game_state.follower EXCEPT !.implementation = new_follower],
     talon    |-> Talon_copy(game_state.talon),
     previous |-> game_state.previous]

\* game_phase that never leaves Phase One
game_phase_one_forever(game_state) == "ONE"

game_phase(game_state) == IF Talon_is_empty(game_state.talon) THEN "TWO" ELSE "ONE"

\* are_all_cards_played with the test of the leader's hand negated: it never
\* reports the end
are_all_cards_played_never(game_state) ==
    /\ Len(game_state.leader.hand) > 0
    /\ Len(game_state.follower.hand) = 0
    /\ Talon_is_empty(game_state.talon)

are_all_cards_played(game_state) ==
    /\ Len(game_state.leader.hand) = 0
    /\ Len(game_state.follower.hand) = 0
    /\ Talon_is_empty(game_state.talon)

\* ----------------------------------------------------------- trick scorer
\* SchnapsenTrickScorer.SCORES
SCORES(rank) ==
    CASE rank = "ACE"   -> 11
      [] rank = "TEN"   -> 10
      [] rank = "KING"  -> 4
      [] rank = "QUEEN" -> 3
      [] rank = "JACK"  -> 2

\* MyTrickScorer.scores of the 24-card game
twenty_four_scores(rank) ==
    CASE rank = "ACE"   -> 11
      [] rank = "TEN"   -> 10
      [] rank = "KING"  -> 4
      [] rank = "QUEEN" -> 3
      [] rank = "JACK"  -> 2
      [] rank = "NINE"  -> 1

\* MyTrickScorer.SCORES of the Ace-One game
ace_one_SCORES(rank) ==
    CASE rank = "ACE"   -> 1
      [] rank = "TEN"   -> 10
      [] rank = "KING"  -> 4
      [] rank = "QUEEN" -> 3
      [] rank = "JACK"  -> 2
      [] rank = "NINE"  -> 1

\* MyTrickScorer.SCORES of the Negative-Ace game
negative_ace_SCORES(rank) ==
    CASE rank = "ACE"   -> -11
      [] rank = "TEN"   -> 10
      [] rank = "KING"  -> 4
      [] rank = "QUEEN" -> 3
      [] rank = "JACK"  -> 2
      [] rank = "NINE"  -> 1

\* rank_to_points that reads the table of the Negative-Ace game in every engine
rank_to_points_negative_ace(rank) == negative_ace_SCORES(rank)

\* engine.trick_scorer.rank_to_points(rank)
rank_to_points(rank) ==
    CASE engine = "TwentyFourSchnapsenGamePlayEngine" -> twenty_four_scores(rank)
      [] engine = "AceOneGamePlayEngine"              -> ace_one_SCORES(rank)
      [] engine = "NegativeAceGamePlayEngine"         -> negative_ace_SCORES(rank)
      [] OTHER                                        -> SCORES(rank)

\* marriage whose points count at once, as direct points
marriage_direct(move, gamestate) ==
    IF move.queen_card.suit = trump_suit(gamestate) THEN Score(40, 0) ELSE Score(20, 0)

\* SchnapsenTrickScorer.marriage
marriage(move, gamestate) ==
    IF move.queen_card.suit = trump_suit(gamestate) THEN Score(0, 40) ELSE Score(0, 20)

\* the decision without the branch that lets a trump of the follower win
leader_wins_no_trumping(leader_card, follower_card, trump) ==
    IF leader_card.suit = follower_card.suit
    THEN rank_to_points(leader_card.rank) > rank_to_points(follower_card.rank)
    ELSE TRUE

\* the decision of SchnapsenTrickScorer.score: does the leader win the trick
leader_wins(leader_card, follower_card, trump) ==
    IF leader_card.suit = follower_card.suit
    THEN rank_to_points(leader_card.rank) > rank_to_points(follower_card.rank)
    ELSE IF leader_card.suit = trump THEN TRUE
    ELSE IF follower_card.suit = trump THEN FALSE
    ELSE TRUE

\* score that credits the winner and returns the two bots in the old order
score_keeps_roles(trick, leader, follower, trump) ==
    LET regular_leader_move == IF is_marriage(trick.leader_move)
                               THEN underlying_regular_move(trick.leader_move)
                               ELSE trick.leader_move
        leader_card     == regular_leader_move.card
        follower_card   == trick.follower_move.card
        lw              == leader_wins(leader_card, follower_card, trump)
        winner          == IF lw THEN leader ELSE follower
        points_gained   == rank_to_points(leader_card.rank) + rank_to_points(follower_card.rank)
        scored          == [winner EXCEPT
                              !.won_cards = winner.won_cards \o <<leader_card, follower_card>>,
                              !.score = redeem_pending_points(
                                            Score_add(winner.score, Score(points_gained, 0)))]
    IN  [ok          |-> leader_card # follower_card,
         winner      |-> IF lw THEN scored ELSE leader,
         loser       |-> IF lw THEN follower ELSE scored,
         leader_wins |-> lw]

\* SchnapsenTrickScorer.score: (winner, loser, leader_wins)
score(trick, leader, follower, trump) ==
    LET regular_leader_move == IF is_marriage(trick.leader_move)
                               THEN underlying_regular_move(trick.leader_move)
                               ELSE trick.leader_move
        leader_card     == regular_leader_move.card
        follower_card   == trick.follower_move.card
        lw              == leader_wins(leader_card, follower_card, trump)
        winner          == IF lw THEN leader ELSE follower
        loser           == IF lw THEN follower ELSE leader
        points_gained   == rank_to_points(leader_card.rank) + rank_to_points(follower_card.rank)
        scored          == [winner EXCEPT
                              !.won_cards = winner.won_cards \o <<leader_card, follower_card>>,
                              !.score = redeem_pending_points(
                                            Score_add(winner.score, Score(points_gained, 0)))]
    IN  [ok          |-> leader_card # follower_card,
         winner      |-> scored,
         loser       |-> loser,
         leader_wins |-> lw]

\* SchnapsenTrickScorer.declare_winner: a winner with game points, no winner
\* yet, or the AssertionError of the follower branch
declare_winner(game_state) ==
    LET follower_score == game_state.follower.score.direct_points
    IN  IF game_state.leader.score.direct_points >= WinThreshold
        THEN IF follower_score = 0
             THEN [outcome |-> "winner", winner |-> game_state.leader, points |-> 3]
             ELSE IF follower_score >= SchneiderThreshold
             THEN [outcome |-> "winner", winner |-> game_state.leader, points |-> 1]
             ELSE IF follower_score < WinThreshold
             THEN [outcome |-> "winner", winner |-> game_state.leader, points |-> 2]
             ELSE [outcome |-> "AssertionError", winner |-> game_state.leader, points |-> -1]
        ELSE IF follower_score >= WinThreshold
        THEN [outcome |-> "AssertionError", winner |-> game_state.leader, points |-> -1]
        ELSE IF are_all_cards_played(game_state)
        THEN [outcome |-> "winner", winner |-> game_state.leader, points |-> 1]
        ELSE [outcome |-> "None", winner |-> game_state.leader, points |-> -1]

\* --------------------------------------------------------- move validator
\* get_legal_leader_moves that looks for marriages only while the talon has cards
get_legal_leader_moves_early_marriage(game_state) ==
    LET cards_in_hand == game_state.leader.hand
        regular       == [i \in 1..Len(cards_in_hand) |-> RegularMove(cards_in_hand[i])]
        trump_jack    == get_card("JACK", trump_suit(game_state))
        exchanges     == IF ~Talon_is_empty(game_state.talon) /\ trump_jack \in Range(cards_in_hand)
                         THEN <<TrumpExchange(trump_jack)>>
                         ELSE <<>>
        queens        == SelectSeq(filter_rank(cards_in_hand, "QUEEN"),
                                   LAMBDA card : get_card("KING", card.suit) \in Range(cards_in_hand))
        marriages     == IF Talon_is_empty(game_state.talon) THEN <<>>
                         ELSE [i \in 1..Len(queens) |->
                                  Marriage(queens[i], get_card("KING", queens[i].suit))]
    IN  regular \o exchanges \o marriages

\* SchnapsenMoveValidator.get_legal_leader_moves, as the list the code builds
get_legal_leader_moves(game_state) ==
    LET cards_in_hand == game_state.leader.hand
        regular       == [i \in 1..Len(cards_in_hand) |-> RegularMove(cards_in_hand[i])]
        trump_jack    == get_card("JACK", trump_suit(game_state))
        exchanges     == IF ~Talon_is_empty(game_state.talon) /\ trump_jack \in Range(cards_in_hand)
                         THEN <<TrumpExchange(trump_jack)>>
                         ELSE <<>>
        queens        == SelectSeq(filter_rank(cards_in_hand, "QUEEN"),
                                   LAMBDA card : get_card("KING", card.suit) \in Range(cards_in_hand))
        marriages     == [i \in 1..Len(queens) |->
                             Marriage(queens[i], get_card("KING", queens[i].suit))]
    IN  regular \o exchanges \o marriages

\* SchnapsenMoveValidator.is_legal_leader_move (the override)
is_legal_leader_move(game_state, move) ==
    LET cards_in_hand == Range(game_state.leader.hand)
    IN  IF is_marriage(move)
        THEN move.queen_card \in cards_in_hand /\ move.king_card \in cards_in_hand
        ELSE IF is_trump_exchange(move)
        THEN IF Talon_is_empty(game_state.talon) THEN FALSE ELSE move.jack \in cards_in_hand
        ELSE move.card \in cards_in_hand

from_cards(cards) == [i \in 1..Len(cards) |-> RegularMove(cards[i])]

\* get_legal_follower_moves without the duty to trump when void in the suit led
get_legal_follower_moves_no_trumping(game_state, leader_move) ==
    LET hand              == game_state.follower.hand
        leader_card       == IF is_marriage(leader_move) THEN leader_move.queen_card
                             ELSE leader_move.card
        leader_card_score == rank_to_points(leader_card.rank)
        same_suit_cards   == filter_suit(hand, leader_card.suit)
        higher_same_suit  == SelectSeq(same_suit_cards,
                                 LAMBDA card : rank_to_points(card.rank) > leader_card_score)
        lower_same_suit   == SelectSeq(same_suit_cards,
                                 LAMBDA card : ~(rank_to_points(card.rank) > leader_card_score))
    IN  IF game_phase(game_state) = "ONE" THEN from_cards(hand)
        ELSE IF same_suit_cards # <<>>
        THEN IF higher_same_suit # <<>> THEN from_cards(higher_same_suit)
             ELSE from_cards(lower_same_suit)
        ELSE from_cards(hand)

\* SchnapsenMoveValidator.get_legal_follower_moves
get_legal_follower_moves(game_state, leader_move) ==
    LET hand              == game_state.follower.hand
        leader_card       == IF is_marriage(leader_move) THEN leader_move.queen_card
                             ELSE leader_move.card
        leader_card_score == rank_to_points(leader_card.rank)
        same_suit_cards   == filter_suit(hand, leader_card.suit)
        higher_same_suit  == SelectSeq(same_suit_cards,
                                 LAMBDA card : rank_to_points(card.rank) > leader_card_score)
        lower_same_suit   == SelectSeq(same_suit_cards,
                                 LAMBDA card : ~(rank_to_points(card.rank) > leader_card_score))
        trump_cards       == filter_suit(hand, trump_suit(game_state))
    IN  IF game_phase(game_state) = "ONE" THEN from_cards(hand)
        ELSE IF same_suit_cards # <<>>
        THEN IF higher_same_suit # <<>> THEN from_cards(higher_same_suit)
             ELSE from_cards(lower_same_suit)
        ELSE IF leader_card.suit # trump_suit(game_state) /\ trump_cards # <<>>
        THEN from_cards(trump_cards)
        ELSE from_cards(hand)

\* MoveValidator.is_legal_follower_move (the base class: membership)
is_legal_follower_move(game_state, leader_move, move) ==
    move \in Range(get_legal_follower_moves(game_state, leader_move))

\* ------------------------------------------------------ trick implementer
\* a Previous that holds the state with its own history cut off
Previous_without_history(state, trick, leader_remained_leader) ==
    [state |-> [state EXCEPT !.previous = NoPrevious], trick |-> trick,
     leader_remained_leader |-> leader_remained_leader]

Previous(state, trick, leader_remained_leader) ==
    [state |-> state, trick |-> trick, leader_remained_leader |-> leader_remained_leader]

RegularTrick(leader_move, follower_move) ==
    [type |-> "RegularTrick", leader_move |-> leader_move, follower_move |-> follower_move]

ExchangeTrick(exchange, trump_card) ==
    [type |-> "ExchangeTrick", exchange |-> exchange, trump_card |-> trump_card]

\* SchnapsenTrickImplementer.play_trump_exchange: which of its checks fails
\* first, "" when none does
play_trump_exchange_raises(game_state, trump_exchange) ==
    IF trump_exchange.jack.suit # trump_suit(game_state) THEN "play_trump_exchange.assert"
    ELSE IF trump_exchange.jack \notin Range(game_state.leader.hand) THEN "Hand.remove"
    ELSE IF ~Talon_trump_exchange_ok(game_state.talon, trump_exchange.jack)
         THEN "Talon.trump_exchange.assert"
    ELSE ""

\* play_trump_exchange that takes the trump card and keeps the Jack in the hand
play_trump_exchange_keeps_jack(game_state, trump_exchange) ==
    LET old_trump == Talon_trump_card(game_state.talon)
    IN  [game_state EXCEPT
            !.leader.hand = Hand_add(game_state.leader.hand, old_trump),
            !.talon = Talon_trump_exchange(game_state.talon, trump_exchange.jack)]

\* SchnapsenTrickImplementer.play_trump_exchange: the state it leaves
play_trump_exchange(game_state, trump_exchange) ==
    LET old_trump == Talon_trump_card(game_state.talon)
    IN  [game_state EXCEPT
            !.leader.hand = Hand_add(Hand_remove(game_state.leader.hand, trump_exchange.jack),
                                     old_trump),
            !.talon = Talon_trump_exchange(game_state.talon, trump_exchange.jack)]

\* _play_marriage that books the marriage as direct points
play_marriage_direct(game_state, marriage_move) ==
    [game_state EXCEPT
        !.leader.score = Score_add(game_state.leader.score,
                                   Score(marriage(marriage_move, game_state).pending_points, 0))]

\* SchnapsenTrickImplementer._play_marriage
play_marriage(game_state, marriage_move) ==
    [game_state EXCEPT
        !.leader.score = Score_add(game_state.leader.score, marriage(marriage_move, game_state))]

\* SchnapsenTrickImplementer._apply_regular_trick
apply_regular_trick(game_state, trick) ==
    LET next0       == copy_for_next(game_state)
        next1       == IF is_marriage(trick.leader_move)
                       THEN play_marriage(next0, trick.leader_move)
                       ELSE next0
        regular_leader_move == IF is_marriage(trick.leader_move)
                               THEN underlying_regular_move(trick.leader_move)
                               ELSE trick.leader_move
        leader_has   == regular_leader_move.card \in Range(next1.leader.hand)
        follower_has == trick.follower_move.card \in Range(next1.follower.hand)
        leader2      == [next1.leader EXCEPT
                            !.hand = Hand_remove(next1.leader.hand, regular_leader_move.card)]
        follower2    == [next1.follower EXCEPT
                            !.hand = Hand_remove(next1.follower.hand, trick.follower_move.card)]
        scored       == score(trick, leader2, follower2, trump_suit(next1))
        draws        == ~Talon_is_empty(next1.talon)
        drawn        == Talon_draw_cards(next1.talon, 2)
        raised       == IF ~leader_has \/ ~follower_has THEN "Hand.remove"
                        ELSE IF ~scored.ok THEN "score.assert"
                        ELSE IF draws /\ ~Talon_draw_cards_ok(next1.talon, 2)
                             THEN "Talon.draw_cards.assert"
                        ELSE IF draws /\ (Len(scored.winner.hand) >= max_size
                                          \/ Len(scored.loser.hand) >= max_size)
                             THEN "Hand.add.assert"
                        ELSE ""
    IN  [raised |-> raised,
         state  |-> IF raised # "" THEN game_state
                    ELSE [leader   |-> IF draws
                                       THEN [scored.winner EXCEPT
                                                !.hand = Hand_add(scored.winner.hand, drawn.draw[1])]
                                       ELSE scored.winner,
                          follower |-> IF draws
                                       THEN [scored.loser EXCEPT
                                                !.hand = Hand_add(scored.loser.hand, drawn.draw[2])]
                                       ELSE scored.loser,
                          talon    |-> IF draws THEN drawn.talon ELSE next1.talon,
                          previous |-> Previous(game_state, trick, scored.leader_wins)]]

\* ------------------------------------------------------ PlayerPerspective
\* Move.cards
Move_cards(move) ==
    CASE move.type = "RegularMove"   -> <<move.card>>
      [] move.type = "TrumpExchange" -> <<move.jack>>
      [] move.type = "Marriage"      -> <<move.queen_card, move.king_card>>
      [] OTHER                       -> <<>>

\* Trick.cards
Trick_cards(trick) ==
    IF trick.type = "ExchangeTrick"
    THEN Append(Move_cards(trick.exchange), trick.trump_card)
    ELSE Move_cards(trick.leader_move) \o Move_cards(trick.follower_move)

\* PlayerPerspective.__past_tricks_cards
RECURSIVE past_tricks_cards(_)
past_tricks_cards(game_state) ==
    IF game_state.previous.trick.type = "None" THEN {}
    ELSE Range(Trick_cards(game_state.previous.trick))
            \cup past_tricks_cards(game_state.previous.state)

\* seen_cards that leaves out the cards of the leader move
seen_cards_without_leader_move(game_state, am_i_leader, the_leader_move) ==
    LET bot == IF am_i_leader THEN game_state.leader ELSE game_state.follower
    IN  Range(bot.hand)
        \cup (IF Talon_is_empty(game_state.talon) THEN {}
              ELSE {Talon_trump_card(game_state.talon)})
        \cup past_tricks_cards(game_state)

\* seen_cards that forgets the cards of the tricks already played
seen_cards_without_past_tricks(game_state, am_i_leader, the_leader_move) ==
    LET bot == IF am_i_leader THEN game_state.leader ELSE game_state.follower
    IN  Range(bot.hand)
        \cup (IF Talon_is_empty(game_state.talon) THEN {}
              ELSE {Talon_trump_card(game_state.talon)})
        \cup Range(Move_cards(the_leader_move))

\* PlayerPerspective.seen_cards
seen_cards(game_state, am_i_leader, the_leader_move) ==
    LET bot == IF am_i_leader THEN game_state.leader ELSE game_state.follower
    IN  Range(bot.hand)
        \cup (IF Talon_is_empty(game_state.talon) THEN {}
              ELSE {Talon_trump_card(game_state.talon)})
        \cup past_tricks_cards(game_state)
        \cup Range(Move_cards(the_leader_move))

\* rand.shuffle(cards): a permutation that depends on the state of rand only
rand_shuffle(cards, rand) ==
    IF Len(cards) > 1
    THEN [i \in 1..Len(cards) |-> cards[((i + rand) % Len(cards)) + 1]]
    ELSE cards

\* the _DummyBot objects make_assumption puts in place of the real bots
DummyBots == <<"_DummyBot.1", "_DummyBot.2">>

\* PlayerPerspective.make_assumption: the perfect information GameState, or
\* the assertion that fails
make_assumption(game_state, am_i_leader, the_leader_move, rand) ==
    LET opponent_hand == IF am_i_leader THEN game_state.follower.hand
                         ELSE game_state.leader.hand
        full_state    == copy_with_other_bots(game_state, DummyBots[1], DummyBots[2])
        seen          == seen_cards(game_state, am_i_leader, the_leader_move)
        full_deck     == deck_generator_get_initial_deck
        unseen_opponent_hand == SelectSeq(opponent_hand, LAMBDA card : card \notin seen)
        talon         == full_state.talon.cards
        unseen_talon  == SelectSeq(talon, LAMBDA card : card \notin seen)
        unseen_cards  == rand_shuffle(SelectSeq(full_deck, LAMBDA card : card \notin seen), rand)
        n             == Len(unseen_cards)
        \* unseen_cards.pop() hands out the shuffled cards from the end
        popped(k)     == unseen_cards[n + 1 - k]
        before(cards, unseen, i) ==
            Len(SelectSeq(SubSeq(cards, 1, i), LAMBDA card : card \in Range(unseen)))
        new_talon     == [i \in 1..Len(talon) |->
                             IF talon[i] \in Range(unseen_talon)
                             THEN popped(before(talon, unseen_talon, i))
                             ELSE talon[i]]
        new_opponent_hand ==
                         [i \in 1..Len(opponent_hand) |->
                             IF opponent_hand[i] \in Range(unseen_opponent_hand)
                             THEN popped(Len(unseen_talon)
                                         + before(opponent_hand, unseen_opponent_hand, i))
                             ELSE opponent_hand[i]]
        raised        == IF ~(Range(Move_cards(the_leader_move)) \subseteq Range(opponent_hand))
                         THEN "make_assumption.assert.leader_move"
                         ELSE IF game_phase(game_state) = "TWO" THEN ""
                         ELSE IF Len(unseen_talon) + Len(unseen_opponent_hand) # n
                         THEN "make_assumption.assert.unseen"
                         ELSE ""
    IN  [raised |-> raised,
         state  |-> IF raised # "" THEN game_state
                    ELSE IF game_phase(game_state) = "TWO" THEN full_state
                    ELSE IF am_i_leader
                    THEN [full_state EXCEPT !.talon = Talon(new_talon, "None"),
                                            !.follower.hand = new_opponent_hand]
                    ELSE [full_state EXCEPT !.talon = Talon(new_talon, "None"),
                                            !.leader.hand = new_opponent_hand]]

\* ------------------------------------------------------------------ state
VARIABLES
    game_state,   \* GameState: leader, follower, talon, previous
    pc,           \* where play_game_from_state stands
    leader_move,  \* the leader move of the trick in progress, or NoMove
    events,       \* the calls the engine made on the two Bot objects, in order
    error,        \* the exception that ended the game, if any
    result,       \* what play_game_from_state returned, if it did
    deviations,   \* answers so far that were not the last move of the legal list
    entry,        \* the engine method the caller used
    rng_seed,     \* the seed of the rng the caller gave to play_game
    first_run,    \* what an earlier run of play_game with this seed left, or NoRun
    n_tricks,     \* play_at_most_n_tricks: its argument n
    rounds_played,  \* play_at_most_n_tricks: the tricks it has played
    caller_game_state  \* the GameState object the caller passed to the engine

vars == <<game_state, pc, leader_move, events, error, result, deviations, entry, engine,
          rng_seed, first_run, n_tricks, rounds_played, caller_game_state>>

Bots == {"bot1", "bot2"}

NoError == [raised |-> "", offender |-> ""]

NoResult == [winner |-> "", points |-> -1, score |-> Score(0, 0)]

\* a call on a Bot that is never given the leader's move
Event_without_leader_move(op, bot, lm, move, won) ==
    [op |-> op, bot |-> bot, leader_move |-> NoMove, move |-> move, won |-> won]

\* one call on a Bot: get_move(perspective, leader_move) returning move,
\* notify_trump_exchange(move) or notify_game_end(won, perspective)
Event(op, bot, lm, move, won) ==
    [op |-> op, bot |-> bot, leader_move |-> lm, move |-> move, won |-> won]

\* GamePlayEngine.play_game, from the deck on: shuffle, deal, first GameState
deal(deck, rng) ==
    LET dealt == generateHands(shuffle_deck(deck, rng))
    IN  [leader   |-> BotState("bot1", dealt.hand1),
         follower |-> BotState("bot2", dealt.hand2),
         talon    |-> dealt.rest,
         previous |-> NoPrevious]

\* the caller has passed no GameState: play_game builds its own
NoState == [previous |-> NoPrevious]

\* no run of play_game came before this one
NoRun == [pc |-> "None"]

\* play_game whose rng is not seeded afresh for a second run
play_game_unseeded(rng) ==
    deal(deck_generator_get_initial_deck, IF first_run = NoRun THEN rng ELSE rng + 1)

\* GamePlayEngine.play_game: the GameState built from the engine's deck
play_game(rng) == deal(deck_generator_get_initial_deck, rng)

\* an answer is free when it is the last move of the agent's legal list (a
\* marriage if there is one, else the exchange, else the newest card)
IsDefault(move, legal) == legal # <<>> /\ move = legal[Len(legal)]

Charge(move, legal) == IF IsDefault(move, legal) THEN 0 ELSE 1

Init ==
    \E rng \in 0..(NumDeals - 1) :
        /\ engine = "SchnapsenGamePlayEngine"
        /\ rng_seed = rng
        /\ first_run = NoRun
        /\ n_tricks = 0
        /\ rounds_played = 0
        /\ caller_game_state = NoState
        /\ game_state = play_game(rng)
        /\ events = <<>>
        /\ error = NoError
        /\ result = NoResult
        /\ \/ /\ entry = "play_game"
              /\ leader_move = NoMove
              /\ pc = "AwaitingLeader"
              /\ deviations = 0
           \/ /\ entry = "play_game_from_state"
              /\ leader_move \in AllMoves
              /\ pc = "FixedLeaderMove"
              /\ deviations = Charge(leader_move, get_legal_leader_moves(game_state))

\* an exception leaves play_game_from_state: nothing is returned and the
\* GameState the caller passed stays as it was
Raise(raised, offender, ev) ==
    /\ pc' = "Error"
    /\ error' = [raised |-> raised, offender |-> offender]
    /\ events' = ev
    /\ leader_move' = NoMove
    /\ UNCHANGED <<game_state, result, rounds_played>>

\* notify_game_end calls that tell the loser first
notify_game_end_loser_first(winner, loser) ==
    <<Event("notify_game_end", loser, NoMove, NoMove, FALSE),
      Event("notify_game_end", winner, NoMove, NoMove, TRUE)>>

\* play_game_from_state, after the loop: notify_game_end(won=True) on the
\* winner's bot, then notify_game_end(False) on the follower's bot
notify_game_end(winner, loser) ==
    <<Event("notify_game_end", winner, NoMove, NoMove, TRUE),
      Event("notify_game_end", loser, NoMove, NoMove, FALSE)>>

\* the engine methods that play up to n tricks and count them
Rollouts == {"play_at_most_n_tricks", "play_one_trick"}

\* a return value that counts no round
RolloutResult_uncounted(next_game_state, rounds) ==
    [state |-> next_game_state, rounds_played |-> 0]

\* what play_at_most_n_tricks returns: (game_state_copy, rounds_played);
\* play_one_trick returns the state alone
RolloutResult(next_game_state, rounds) ==
    IF entry = "play_one_trick" THEN [state |-> next_game_state]
    ELSE [state |-> next_game_state, rounds_played |-> rounds]

\* the engine method returns to its caller; play_one_trick first asserts
\* that play_at_most_n_tricks played one round
Return(returned, rounds, ev) ==
    IF entry = "play_one_trick" /\ rounds # 1
    THEN /\ pc' = "Error"
         /\ error' = [raised |-> "play_one_trick.assert", offender |-> ""]
         /\ events' = ev
         /\ UNCHANGED result
    ELSE /\ pc' = "Done"
         /\ events' = ev
         /\ result' = returned
         /\ UNCHANGED error

\* play_game_from_state and play_at_most_n_tricks, after the trick:
\* declare_winner, one more round played, then the next iteration, or the
\* two notify_game_end calls and the return, or the return because n
\* tricks were played
AfterTrick(next_game_state, ev) ==
    LET declared == declare_winner(next_game_state)
        rounds   == IF entry \in Rollouts THEN rounds_played + 1 ELSE rounds_played
        returned == IF entry \in Rollouts THEN RolloutResult(next_game_state, rounds)
                    ELSE [winner |-> declared.winner.implementation,
                          points |-> declared.points,
                          score  |-> declared.winner.score]
    IN  IF declared.outcome = "AssertionError"
        THEN /\ pc' = "Error"
             /\ error' = [raised |-> "declare_winner.assert", offender |-> ""]
             /\ events' = ev
             /\ leader_move' = NoMove
             /\ game_state' = next_game_state
             /\ UNCHANGED <<result, rounds_played>>
        ELSE /\ game_state' = next_game_state
             /\ leader_move' = NoMove
             /\ rounds_played' = rounds
             /\ IF declared.outcome = "winner"
                THEN IF declared.winner.implementation \in Range(DummyBots)
                     THEN /\ pc' = "Error"
                          /\ error' = [raised   |-> "_DummyBot.notify_game_end",
                                       offender |-> declared.winner.implementation]
                          /\ events' = Append(ev, notify_game_end(
                                                      declared.winner.implementation,
                                                      next_game_state.follower.implementation)[1])
                          /\ UNCHANGED result
                     ELSE Return(returned, rounds,
                                 ev \o notify_game_end(
                                           declared.winner.implementation,
                                           next_game_state.follower.implementation))
                ELSE IF entry \in Rollouts /\ rounds = n_tricks
                THEN Return(returned, rounds, ev)
                ELSE /\ pc' = "AwaitingLeader"
                     /\ events' = ev
                     /\ UNCHANGED <<result, error>>

\* play_trump_exchange that tells the leader only
notify_trump_exchange_leader_only(state, trump_exchange) ==
    <<Event("notify_trump_exchange", state.leader.implementation,
            NoMove, trump_exchange, FALSE)>>

\* SchnapsenTrickImplementer.play_trump_exchange: its two notify_trump_exchange
\* calls, first on the leader's bot, then on the follower's
notify_trump_exchange(state, trump_exchange) ==
    <<Event("notify_trump_exchange", state.leader.implementation,
            NoMove, trump_exchange, FALSE),
      Event("notify_trump_exchange", state.follower.implementation,
            NoMove, trump_exchange, FALSE)>>

\* SchnapsenTrickImplementer.play_trick_with_fixed_leader_move up to the
\* point where it either finished an exchange trick or asks the follower
TrickWithLeaderMove(move, ev) ==
    IF is_trump_exchange(move)
    THEN LET next_game_state == copy_for_next(game_state)
             raised == IF Talon_is_empty(game_state.talon)
                       THEN "play_trick_with_fixed_leader_move.assert"
                       ELSE play_trump_exchange_raises(next_game_state, move)
         IN  IF raised # ""
             THEN Raise(raised, "", ev)
             ELSE IF game_state.leader.implementation \in Range(DummyBots)
             THEN Raise("_DummyBot.notify_trump_exchange", game_state.leader.implementation,
                        Append(ev, notify_trump_exchange(next_game_state, move)[1]))
             ELSE AfterTrick(
                      [play_trump_exchange(next_game_state, move) EXCEPT
                          !.previous = Previous(game_state,
                                           ExchangeTrick(move, Talon_trump_card(game_state.talon)),
                                           TRUE)],
                      ev \o notify_trump_exchange(next_game_state, move))
    ELSE /\ pc' = "AwaitingFollower"
         /\ leader_move' = move
         /\ events' = ev
         /\ UNCHANGED <<game_state, error, result, rounds_played>>

\* SchnapsenTrickImplementer.play_trick: get_leader_move asks the leader,
\* validates the answer and hands it to play_trick_with_fixed_leader_move
play_trick ==
    /\ pc = "AwaitingLeader"
    /\ IF game_state.leader.implementation \in Range(DummyBots)
       THEN /\ Raise("_DummyBot.get_move", game_state.leader.implementation,
                     Append(events, Event("get_move", game_state.leader.implementation,
                                          NoMove, NoMove, FALSE)))
            /\ UNCHANGED deviations
       ELSE \E move \in AllMoves :
        LET legal == get_legal_leader_moves(game_state)
            ev    == Append(events, Event("get_move", game_state.leader.implementation,
                                          NoMove, move, FALSE))
        IN  /\ IsDefault(move, legal) \/ deviations < MaxDeviations
            /\ deviations' = deviations + Charge(move, legal)
            /\ IF ~is_legal_leader_move(game_state, move)
               THEN Raise("get_leader_move", game_state.leader.implementation, ev)
               ELSE TrickWithLeaderMove(move, ev)
    /\ UNCHANGED <<entry, engine, rng_seed, first_run, n_tricks, caller_game_state>>

\* play_game_from_state with a leader_move: the first trick starts from the
\* caller's move, which goes to play_trick_with_fixed_leader_move as it is
play_trick_with_fixed_leader_move ==
    /\ pc = "FixedLeaderMove"
    /\ TrickWithLeaderMove(leader_move, events)
    /\ UNCHANGED <<deviations, entry, engine, rng_seed, first_run, n_tricks,
                   caller_game_state>>

\* SchnapsenTrickImplementer.get_follower_move and the rest of the trick:
\* ask the follower, validate, _apply_regular_trick, then declare_winner
get_follower_move ==
    /\ pc = "AwaitingFollower"
    /\ IF game_state.follower.implementation \in Range(DummyBots)
       THEN /\ Raise("_DummyBot.get_move", game_state.follower.implementation,
                     Append(events, Event("get_move", game_state.follower.implementation,
                                          leader_move, NoMove, FALSE)))
            /\ UNCHANGED deviations
       ELSE \E move \in AllMoves :
        LET legal == get_legal_follower_moves(game_state, leader_move)
            ev    == Append(events, Event("get_move", game_state.follower.implementation,
                                          leader_move, move, FALSE))
            applied == apply_regular_trick(game_state, RegularTrick(leader_move, move))
        IN  /\ IsDefault(move, legal) \/ deviations < MaxDeviations
            /\ deviations' = deviations + Charge(move, legal)
            /\ IF ~is_legal_follower_move(game_state, leader_move, move)
               THEN Raise("get_follower_move", game_state.follower.implementation, ev)
               ELSE IF applied.raised # ""
               THEN Raise(applied.raised, "", ev)
               ELSE AfterTrick(applied.state, ev)
    /\ UNCHANGED <<entry, engine, rng_seed, first_run, n_tricks, caller_game_state>>

Next ==
    \/ play_trick
    \/ play_trick_with_fixed_leader_move
    \/ get_follower_move

Spec == Init /\ [][Next]_vars

\* ------------------------------------------------------- helpers of claims
\* the Previous links of a state, oldest first
RECURSIVE History(_)
History(state) ==
    IF state.previous.trick.type = "None" THEN <<>>
    ELSE Append(History(state.previous.state), state.previous)

\* all the places of a GameState where a card can lie
CardLocations(state) ==
    state.leader.hand \o state.follower.hand \o state.talon.cards
        \o state.leader.won_cards \o state.follower.won_cards

Occurrences(seq, x) == Cardinality({i \in 1..Len(seq) : seq[i] = x})

\* the leader move of a trick, whatever the kind of trick
TrickLeaderMove(trick) ==
    IF trick.type = "ExchangeTrick" THEN trick.exchange ELSE trick.leader_move

HasTrick(state, type) == \E i \in 1..Len(History(state)) : History(state)[i].trick.type = type

\* ------------------------------------------------------------------ C1
\* C1: card conservation. In every state of a game each card of the initial
\* deck lies in exactly one of leader.hand, follower.hand, talon,
\* leader.won_cards, follower.won_cards: none is duplicated, none is lost.
C1_CardConservation ==
    /\ Len(CardLocations(game_state)) = Len(get_initial_deck)
    /\ \A c \in Range(get_initial_deck) : Occurrences(CardLocations(game_state), c) = 1

\* a finished game that held a trump exchange, a marriage and all talon draws
C1_Witness ==
    /\ pc = "Done"
    /\ Talon_is_empty(game_state.talon)
    /\ HasTrick(game_state, "ExchangeTrick")
    /\ \E i \in 1..Len(History(game_state)) :
          /\ History(game_state)[i].trick.type = "RegularTrick"
          /\ is_marriage(History(game_state)[i].trick.leader_move)

\* ------------------------------------------------------------------ C2
\* C2: legal move closure. Every leader move and every follower move of a
\* trick that was applied (and so is linked in the history) is a member of
\* the validator's legal moves for the state the trick started from, also
\* when the leader move came from the caller of play_game_from_state.
C2_LegalMoveClosure ==
    \A i \in 1..Len(History(game_state)) :
        LET p == History(game_state)[i]
        IN  /\ TrickLeaderMove(p.trick) \in Range(get_legal_leader_moves(p.state))
            /\ p.trick.type = "RegularTrick" =>
                  p.trick.follower_move
                      \in Range(get_legal_follower_moves(p.state, p.trick.leader_move))

\* ------------------------------------------------------------------ C3
\* C3: an agent that answers get_move with a move outside the legal moves of
\* the current state ends the game in an error that names that agent; no
\* result is returned and the GameState is left as it was.
IllegalAnswerStep ==
    /\ pc \in {"AwaitingLeader", "AwaitingFollower"}
    /\ Len(events') = Len(events) + 1
    /\ events'[Len(events')].op = "get_move"
    /\ events'[Len(events')].move \notin
          (IF pc = "AwaitingLeader"
           THEN Range(get_legal_leader_moves(game_state))
           ELSE Range(get_legal_follower_moves(game_state, leader_move)))

C3_IllegalMoveNamesOffender ==
    [][IllegalAnswerStep =>
          /\ pc' = "Error"
          /\ error'.offender = events'[Len(events')].bot
          /\ game_state' = game_state
          /\ result' = NoResult]_vars

\* ------------------------------------------------------------------ C4
\* the cards the rules let the follower play, stated on sets of cards
FollowerMayPlay(state, lm) ==
    LET hand        == Range(state.follower.hand)
        leader_card == IF lm.type = "Marriage" THEN lm.queen_card ELSE lm.card
        trump       == state.talon.trump_suit
        same        == {c \in hand : c.suit = leader_card.suit}
        higher      == {c \in same : rank_to_points(c.rank) > rank_to_points(leader_card.rank)}
        trumps      == {c \in hand : c.suit = trump}
    IN  CASE Len(state.talon.cards) > 0                  -> hand
          [] OTHER ->
             CASE higher # {}                            -> higher
               [] same # {}                              -> same
               [] leader_card.suit # trump /\ trumps # {} -> trumps
               [] OTHER                                  -> hand

\* C4: follower legal moves. In Phase One the follower may play every card
\* of the hand; in Phase Two exactly the higher cards of the suit led, else
\* all cards of that suit, else (a non-trump was led) all trumps held, else
\* the whole hand. A Marriage leads its Queen. One RegularMove per such
\* card, and some move whenever the hand is not empty.
C4_FollowerLegalMoves ==
    pc = "AwaitingFollower" /\ leader_move.type \in {"RegularMove", "Marriage"} =>
        LET moves == get_legal_follower_moves(game_state, leader_move)
            may   == FollowerMayPlay(game_state, leader_move)
        IN  /\ Range(moves) = {RegularMove(c) : c \in may}
            /\ Len(moves) = Cardinality(may)
            /\ game_state.follower.hand # <<>> => moves # <<>>

\* Phase Two, a non-trump led, the follower is void in it and holds both a
\* trump and another card: only the trumps may be played
C4_Witness ==
    /\ pc = "AwaitingFollower"
    /\ leader_move.type = "RegularMove"
    /\ Talon_is_empty(game_state.talon)
    /\ leader_move.card.suit # trump_suit(game_state)
    /\ filter_suit(game_state.follower.hand, leader_move.card.suit) = <<>>
    /\ filter_suit(game_state.follower.hand, trump_suit(game_state)) # <<>>
    /\ Len(get_legal_follower_moves(game_state, leader_move)) < Len(game_state.follower.hand)

\* ------------------------------------------------------------------ C5
\* the Queens of a hand whose King of the same suit is in the hand as well
MarriageQueens(hand) ==
    {q \in Range(hand) : q.rank = "QUEEN" /\ [rank |-> "KING", suit |-> q.suit] \in Range(hand)}

\* C5: leader legal moves. Leaving a TrumpExchange aside, the legal leader
\* moves are one RegularMove for every card of the leader's hand and one
\* Marriage for every Queen whose King is in the hand too, in both phases.
C5_LeaderLegalMoves ==
    LET hand  == game_state.leader.hand
        moves == SelectSeq(get_legal_leader_moves(game_state),
                           LAMBDA m : m.type # "TrumpExchange")
    IN  /\ Range(moves) =
              {RegularMove(c) : c \in Range(hand)}
              \cup {Marriage(q, [rank |-> "KING", suit |-> q.suit]) : q \in MarriageQueens(hand)}
        /\ Len(moves) = Len(hand) + Cardinality(MarriageQueens(hand))

\* a leader about to move in Phase Two with a marriage in hand
C5_Witness ==
    /\ pc = "AwaitingLeader"
    /\ Talon_is_empty(game_state.talon)
    /\ MarriageQueens(game_state.leader.hand) # {}

\* ------------------------------------------------------------------ C6
\* C6: a TrumpExchange is legal for the leader exactly when its Jack is the
\* Jack of the trump suit, the leader holds it and the talon has at least 2
\* cards; get_legal_leader_moves offers it and is_legal_leader_move accepts
\* it in that case and in no other.
C6_TrumpExchangeLegality ==
    \A s \in Range(Suit) :
        LET m  == TrumpExchange([rank |-> "JACK", suit |-> s])
            ok == /\ s = game_state.talon.trump_suit
                  /\ m.jack \in Range(game_state.leader.hand)
                  /\ Len(game_state.talon.cards) >= 2
        IN  /\ m \in Range(get_legal_leader_moves(game_state)) <=> ok
            /\ is_legal_leader_move(game_state, m) <=> ok

\* ------------------------------------------------------------------ C7
\* a step that completes a trump-exchange trick
ExchangeTrickStep ==
    /\ game_state' # game_state
    /\ game_state'.previous.trick.type = "ExchangeTrick"

\* the calls made on the bots during the step
NewEvents == SubSeq(events', Len(events) + 1, Len(events'))

\* C7: trump-exchange short-circuit. The trick of a TrumpExchange completes
\* without a get_move call on the follower; once the Jack and the trump card
\* have changed places both agents get notify_trump_exchange, and nothing
\* else is called before the next leader get_move; the history gains an
\* ExchangeTrick whose Previous has leader_remained_leader = TRUE and the
\* same player leads the resulting state.
C7_ExchangeShortCircuit ==
    [][ExchangeTrickStep =>
          LET exchange == game_state'.previous.trick.exchange
              old_lead == game_state.leader.implementation
              old_foll == game_state.follower.implementation
              asked    == SelectSeq(NewEvents, LAMBDA e : e.op = "get_move")
              told     == SelectSeq(NewEvents, LAMBDA e : e.op # "get_move")
          IN  /\ \A i \in 1..Len(asked) : asked[i].bot = old_lead /\ asked[i].move = exchange
              /\ NewEvents = asked \o told
              /\ Len(told) = 2
              /\ \A i \in 1..2 : told[i].op = "notify_trump_exchange" /\ told[i].move = exchange
              /\ {told[1].bot, told[2].bot} = {old_lead, old_foll}
              /\ pc' = "AwaitingLeader"
              /\ game_state'.previous.state = game_state
              /\ game_state'.previous.leader_remained_leader = TRUE
              /\ game_state'.leader.implementation = old_lead
              /\ game_state'.follower.implementation = old_foll
              /\ game_state'.talon.cards[Len(game_state'.talon.cards)] = exchange.jack
              /\ game_state.talon.cards[Len(game_state.talon.cards)]
                    \in Range(game_state'.leader.hand)
              /\ exchange.jack \notin Range(game_state'.leader.hand)]_vars

\* the state right after an exchange trick that the leader asked for
C7_Witness ==
    /\ pc = "AwaitingLeader"
    /\ game_state.previous.trick.type = "ExchangeTrick"
    /\ Len(events) >= 3
    /\ events[Len(events)].op = "notify_trump_exchange"

\* ------------------------------------------------------------------ C8
\* the card the leader puts into the trick
LeaderCard(lm) == IF lm.type = "Marriage" THEN lm.king_card ELSE lm.card

Points(card) == rank_to_points(card.rank)

\* the pending points a marriage of the leader adds before the trick is scored
Declared(state, lm) ==
    IF lm.type # "Marriage" THEN 0
    ELSE IF lm.queen_card.suit = state.talon.trump_suit THEN 40 ELSE 20

StateOf(state, bot) ==
    IF state.leader.implementation = bot THEN state.leader ELSE state.follower

\* C10: the follower is never the first at 66. Whenever declare_winner is
\* evaluated the follower has fewer than 66 direct points, its follower
\* assertion never fires, and the declared winner is the player who won the
\* most recent regular trick, which is the trick just played.
C10_FollowerNeverFirst ==
    /\ game_state.follower.score.direct_points < WinThreshold
    /\ error.raised # "declare_winner.assert"
    /\ pc = "Done" =>
          LET trick == game_state.previous.trick
              won   == StateOf(game_state, result.winner).won_cards
          IN  /\ trick.type = "RegularTrick"
              /\ Len(won) >= 2
              /\ SubSeq(won, Len(won) - 1, Len(won))
                    = <<LeaderCard(trick.leader_move), trick.follower_move.card>>
              /\ result.winner = game_state.leader.implementation

\* a game won by the follower of its last trick, against 33 or more
C10_Witness ==
    /\ pc = "Done"
    /\ ~game_state.previous.leader_remained_leader
    /\ game_state.leader.score.direct_points >= WinThreshold
    /\ game_state.follower.score.direct_points >= SchneiderThreshold

\* ------------------------------------------- declare_winner on its own
\* A caller (a test, a search bot) builds a GameState and hands it to
\* SchnapsenTrickScorer.declare_winner: any direct points up to MaxPoints,
\* each hand and the talon either as dealt or empty.
BuiltStates ==
    LET dealt == deal(get_initial_deck, 0)
    IN  {[leader   |-> [dealt.leader EXCEPT
                           !.hand = IF lh THEN dealt.leader.hand ELSE <<>>,
                           !.score = Score(l, 0)],
          follower |-> [dealt.follower EXCEPT
                           !.hand = IF fh THEN dealt.follower.hand ELSE <<>>,
                           !.score = Score(f, 0)],
          talon    |-> [dealt.talon EXCEPT
                           !.cards = IF t THEN dealt.talon.cards ELSE <<>>],
          previous |-> NoPrevious] :
            l \in 0..MaxPoints, f \in 0..MaxPoints,
            lh \in BOOLEAN, fh \in BOOLEAN, t \in BOOLEAN}

InitDeclare ==
    /\ engine = "SchnapsenGamePlayEngine"
    /\ rng_seed = 0
    /\ first_run = NoRun
    /\ n_tricks = 0
    /\ rounds_played = 0
    /\ caller_game_state = NoState
    /\ game_state \in BuiltStates
    /\ pc = "DeclareWinner"
    /\ leader_move = NoMove
    /\ events = <<>>
    /\ error = NoError
    /\ result = NoResult
    /\ deviations = 0
    /\ entry = "declare_winner"

\* one call of SchnapsenTrickScorer.declare_winner(game_state)
call_declare_winner ==
    /\ pc = "DeclareWinner"
    /\ LET declared == declare_winner(game_state)
       IN  /\ pc' = CASE declared.outcome = "winner" -> "Done"
                      [] declared.outcome = "None" -> "NoWinner"
                      [] OTHER -> "Error"
           /\ result' = IF declared.outcome = "winner"
                        THEN [winner |-> declared.winner.implementation,
                              points |-> declared.points,
                              score  |-> declared.winner.score]
                        ELSE NoResult
           /\ error' = IF declared.outcome = "AssertionError"
                       THEN [raised |-> "declare_winner.assert", offender |-> ""]
                       ELSE NoError
    /\ UNCHANGED <<game_state, leader_move, events, deviations, entry, engine,
                   rng_seed, first_run, n_tricks, rounds_played, caller_game_state>>

NextDeclare == call_declare_winner

SpecDeclare == InitDeclare /\ [][NextDeclare]_vars

\* ------------------------------------------------------------------ C9
\* C9: game-point award. declare_winner gives the leader 3 game points at
\* 66 or more against 0, 2 against 1..32, 1 against 33..65, and 1 when the
\* leader is below 66 and talon and both hands are empty; otherwise there is
\* no winner yet; and a follower at 66 or more is always an error, never a
\* result.
C9_GamePointAward ==
    pc \in {"Done", "NoWinner", "Error"} /\ entry = "declare_winner" =>
        LET l      == game_state.leader.score.direct_points
            f      == game_state.follower.score.direct_points
            played == /\ game_state.leader.hand = <<>>
                      /\ game_state.follower.hand = <<>>
                      /\ game_state.talon.cards = <<>>
            award(n) == /\ pc = "Done"
                        /\ result.winner = game_state.leader.implementation
                        /\ result.points = n
        IN  CASE f >= 66                 -> pc = "Error"
              [] f < 66 /\ l >= 66 /\ f = 0  -> award(3)
              [] f < 66 /\ l >= 66 /\ f > 0 /\ f < 33 -> award(2)
              [] f < 66 /\ l >= 66 /\ f >= 33 -> award(1)
              [] f < 66 /\ l < 66 /\ played  -> award(1)
              [] OTHER                   -> pc = "NoWinner"

RECURSIVE SumTo(_, _)
SumTo(f, n) == IF n = 0 THEN 0 ELSE f[n] + SumTo(f, n - 1)

\* the bot that took trick h of the history ("" for an exchange trick)
TrickWinner(h) ==
    IF h.trick.type # "RegularTrick" THEN ""
    ELSE IF h.leader_remained_leader THEN h.state.leader.implementation
    ELSE h.state.follower.implementation

\* the points of the two cards of trick h
TrickPoints(h) ==
    Points(LeaderCard(h.trick.leader_move)) + Points(h.trick.follower_move.card)

\* the marriage points bot declared in trick h
DeclaredBy(h, bot) ==
    IF h.trick.type = "RegularTrick" /\ h.state.leader.implementation = bot
    THEN Declared(h.state, h.trick.leader_move)
    ELSE 0

\* the game points declare_winner gives for these direct points
GamePoints(leader_direct, follower_direct) ==
    IF leader_direct < WinThreshold THEN 1
    ELSE IF follower_direct = 0 THEN 3
    ELSE IF follower_direct < SchneiderThreshold THEN 2
    ELSE 1

\* C12: marriage materialization. A player's direct points are the card
\* points of the tricks the player won plus the marriages the player
\* declared up to the last trick the player won (that trick included); the
\* marriages declared after it are the player's pending points, so a
\* declarer who wins no trick from the declaration on keeps them pending to
\* the end of the game and nobody else gets them. The game ends, and game
\* points are given, by direct points alone.
C12_MarriageMaterialization ==
    LET H == History(game_state)
    IN  /\ \A bot \in Bots :
              LET wins    == {i \in 1..Len(H) : TrickWinner(H[i]) = bot}
                  last    == IF wins = {} THEN 0
                             ELSE CHOOSE i \in wins : \A j \in wins : j <= i
                  cards   == [i \in 1..Len(H) |-> IF i \in wins THEN TrickPoints(H[i]) ELSE 0]
                  counted == [i \in 1..Len(H) |-> IF i <= last THEN DeclaredBy(H[i], bot) ELSE 0]
                  waiting == [i \in 1..Len(H) |-> IF i > last THEN DeclaredBy(H[i], bot) ELSE 0]
              IN  StateOf(game_state, bot).score =
                      Score(SumTo(cards, Len(H)) + SumTo(counted, Len(H)),
                            SumTo(waiting, Len(H)))
        /\ pc = "Done" =>
              /\ \/ game_state.leader.score.direct_points >= WinThreshold
                 \/ are_all_cards_played(game_state)
              /\ result.points = GamePoints(game_state.leader.score.direct_points,
                                            game_state.follower.score.direct_points)
        /\ pc \in {"AwaitingLeader", "AwaitingFollower"} /\ H # <<>> =>
              /\ game_state.leader.score.direct_points < WinThreshold
              /\ ~are_all_cards_played(game_state)

\* a game that ended while the loser's marriage was still pending: with it
\* the loser would have had 33 points, and the winner gets 2 game points
C12_Witness ==
    /\ pc = "Done"
    /\ game_state.follower.score.pending_points > 0
    /\ game_state.follower.score.direct_points > 0
    /\ game_state.follower.score.direct_points < SchneiderThreshold
    /\ game_state.follower.score.direct_points + game_state.follower.score.pending_points
          >= SchneiderThreshold
    /\ result.points = 2

\* ------------------------------------------------------------------ C13
\* the state ends a trick that its leader opened with a Marriage held in hand
MarriageTrickJustPlayed ==
    /\ game_state.previous.trick.type = "RegularTrick"
    /\ is_marriage(game_state.previous.trick.leader_move)
    /\ game_state.previous.trick.leader_move.queen_card
          \in Range(game_state.previous.state.leader.hand)
    /\ game_state.previous.trick.leader_move.king_card
          \in Range(game_state.previous.state.leader.hand)

\* C13 as claimed: at the end of the trick in which a marriage is declared
\* its 20 or 40 points are still pending points of the declarer and not
\* direct points, whoever wins that trick.
C13_PendingAtTrickEnd ==
    MarriageTrickJustPlayed =>
        LET before   == game_state.previous.state
            m        == game_state.previous.trick.leader_move
            declarer == StateOf(game_state, before.leader.implementation)
        IN  declarer.score.pending_points
                = before.leader.score.pending_points + Declared(before, m)

\* C13 as amended: at the end of the trick in which a marriage is declared
\* its 20 or 40 points are pending points of the declarer, and not direct
\* points, when the follower wins that trick; when the declarer wins it they
\* are direct points already, redeemed with the trick's card points.
C13_PendingUnlessTrickWon ==
    game_state.previous.trick.type = "RegularTrick"
        /\ is_marriage(game_state.previous.trick.leader_move) =>
        LET before   == game_state.previous.state
            m        == game_state.previous.trick.leader_move
            declarer == StateOf(game_state, before.leader.implementation)
            cards    == Points(m.king_card) + Points(game_state.previous.trick.follower_move.card)
        IN  IF game_state.previous.leader_remained_leader
            THEN /\ declarer.score.pending_points = 0
                 /\ declarer.score.direct_points =
                       before.leader.score.direct_points + before.leader.score.pending_points
                           + Declared(before, m) + cards
            ELSE /\ declarer.score.pending_points
                       = before.leader.score.pending_points + Declared(before, m)
                 /\ declarer.score.direct_points = before.leader.score.direct_points

\* the declarer took the trick of the marriage and has its points as direct
\* points, while the game goes on
C13_Witness ==
    /\ MarriageTrickJustPlayed
    /\ game_state.previous.leader_remained_leader
    /\ pc = "AwaitingLeader"
    /\ game_state.leader.score.pending_points = 0
    /\ game_state.leader.score.direct_points
          >= Declared(game_state.previous.state, game_state.previous.trick.leader_move)
                + Points(game_state.previous.trick.leader_move.king_card)

\* ------------------------------------------------------------------ C14
\* play_game alone: the caller gives two bots and an rng, never a leader move
InitPlayGame ==
    \E rng \in 0..(NumDeals - 1) :
        /\ engine = "SchnapsenGamePlayEngine"
        /\ rng_seed = rng
        /\ first_run = NoRun
        /\ n_tricks = 0
        /\ rounds_played = 0
        /\ caller_game_state = NoState
        /\ game_state = play_game(rng)
        /\ events = <<>>
        /\ error = NoError
        /\ result = NoResult
        /\ entry = "play_game"
        /\ leader_move = NoMove
        /\ pc = "AwaitingLeader"
        /\ deviations = 0

NextPlayGame ==
    \/ play_trick
    \/ get_follower_move

\* the loop of play_game_from_state runs on as long as a trick can be played:
\* the engine is one thread and an agent's get_move returns
SpecPlayGame == InitPlayGame /\ [][NextPlayGame]_vars /\ WF_vars(NextPlayGame)

\* the number of regular tricks played so far
RegularTricks(state) ==
    Cardinality({i \in 1..Len(History(state)) : History(state)[i].trick.type = "RegularTrick"})

\* the game ended in an exception, in the step in which an agent answered
\* get_move with a move outside its legal moves (the GameState is the one of
\* that call)
EndedByIllegalAnswer ==
    /\ pc = "Error"
    /\ events # <<>>
    /\ LET e == events[Len(events)]
       IN  /\ e.op = "get_move"
           /\ e.move \notin
                 (IF e.leader_move = NoMove
                  THEN Range(get_legal_leader_moves(game_state))
                  ELSE Range(get_legal_follower_moves(game_state, e.leader_move)))

\* C14: termination. Every game ends after finitely many tricks; a game
\* started by play_game in which every answer of the agents was a legal
\* move ends with declare_winner naming a winner, after at most 10 regular
\* tricks, and the game points returned are 1, 2 or 3.
C14_Termination ==
    <>(\/ /\ pc = "Done"
          /\ result.winner \in Bots
          /\ result.points \in {1, 2, 3}
          /\ RegularTricks(game_state) <= 10
       \/ EndedByIllegalAnswer)

\* a game of ten regular tricks that ended with a winner, no agent having
\* left its legal moves
C14_Witness ==
    /\ pc = "Done"
    /\ entry = "play_game"
    /\ RegularTricks(game_state) = 10
    /\ C2_LegalMoveClosure

\* ------------------------------------------------------------------ C15
\* C15: hand size parity. Between tricks, after a regular trick as after a
\* trump exchange, the two hands have the same number of cards: 5 at the
\* start and as long as the talon has cards, then one fewer per trick; no
\* hand ever holds more than 5 cards and Hand.add never fails its assertion.
C15_HandSizeParity ==
    /\ Len(game_state.leader.hand) = Len(game_state.follower.hand)
    /\ Len(game_state.leader.hand) <= max_size
    /\ Len(game_state.follower.hand) <= max_size
    /\ game_state.previous = NoPrevious => Len(game_state.leader.hand) = 5
    /\ ~Talon_is_empty(game_state.talon) => Len(game_state.leader.hand) = 5
    /\ game_state.previous # NoPrevious =>
          Len(game_state.leader.hand) =
              IF game_state.previous.trick.type = "ExchangeTrick"
                 \/ ~Talon_is_empty(game_state.previous.state.talon)
              THEN Len(game_state.previous.state.leader.hand)
              ELSE Len(game_state.previous.state.leader.hand) - 1
    /\ error.raised # "Hand.add.assert"

\* in Phase Two, with fewer than 5 cards in each hand, after a game that held
\* a trump exchange
C15_Witness ==
    /\ pc = "AwaitingLeader"
    /\ Talon_is_empty(game_state.talon)
    /\ Len(game_state.leader.hand) = 3
    /\ Len(game_state.follower.hand) = 3
    /\ HasTrick(game_state, "ExchangeTrick")

\* ------------------------------------------------------------------ C16
\* the GameState the game started from
RECURSIVE InitialState(_)
InitialState(state) ==
    IF state.previous.trick.type = "None" THEN state
    ELSE InitialState(state.previous.state)

\* what make_assumption returns to the bot that is asked for a move now
Assumptions ==
    {make_assumption(game_state, pc = "AwaitingLeader", leader_move, rand) :
        rand \in 0..(NumShuffles - 1)}

\* C16: the trump suit is the same in every state of a game, the suit of the
\* card dealt to the bottom of the talon: a trump exchange, the talon draws,
\* the talon running empty, the copy made for the next trick, the copy with
\* other bots and make_assumption all leave it as it is.
C16_TrumpSuitConstant ==
    LET first == InitialState(game_state)
        trump == first.talon.cards[Len(first.talon.cards)].suit
    IN  /\ trump_suit(game_state) = trump
        /\ \A i \in 1..Len(History(game_state)) :
              trump_suit(History(game_state)[i].state) = trump
        /\ ~Talon_is_empty(game_state.talon) =>
              Talon_trump_card(game_state.talon).suit = trump
        /\ trump_suit(copy_for_next(game_state)) = trump
        /\ trump_suit(copy_with_other_bots(game_state, DummyBots[1], DummyBots[2])) = trump
        /\ pc \in {"AwaitingLeader", "AwaitingFollower"} =>
              \A a \in Assumptions : a.raised = "" => trump_suit(a.state) = trump

\* the follower is asked in the last trick of Phase One, after a trump
\* exchange, and make_assumption gives it a talon with another top card
C16_Witness ==
    /\ pc = "AwaitingFollower"
    /\ Len(game_state.talon.cards) = 2
    /\ HasTrick(game_state, "ExchangeTrick")
    /\ \E a \in Assumptions :
          /\ a.raised = ""
          /\ a.state.talon.cards # game_state.talon.cards
          /\ a.state.talon.cards[2] = game_state.talon.cards[2]

\* ------------------------------------------ the engines of the repository
\* play_game / play_game_from_state of any of the four GamePlayEngine
\* classes: the same loop, validator and trick implementer, with the deck
\* generator and the trick scorer of the class. The caller may give the
\* first leader move; the agents give their default answers.
InitEngines ==
    \E rng \in 0..(NumDeals - 1) :
        /\ engine \in Engines
        /\ rng_seed = rng
        /\ first_run = NoRun
        /\ n_tricks = 0
        /\ rounds_played = 0
        /\ caller_game_state = NoState
        /\ game_state = play_game(rng)
        /\ events = <<>>
        /\ error = NoError
        /\ result = NoResult
        /\ deviations = MaxDeviations
        /\ \/ /\ entry = "play_game"
              /\ leader_move = NoMove
              /\ pc = "AwaitingLeader"
           \/ /\ entry = "play_game_from_state"
              /\ leader_move \in AllMoves
              /\ pc = "FixedLeaderMove"

SpecEngines == InitEngines /\ [][Next]_vars

\* ------------------------------------------------------------------ C17
\* direct_points of no player went down in the last trick, and no points
\* are negative
ScoresGrow ==
    /\ \A bot \in Bots :
          /\ StateOf(game_state, bot).score.direct_points >= 0
          /\ StateOf(game_state, bot).score.pending_points >= 0
    /\ game_state.previous # NoPrevious =>
          \A bot \in Bots :
              StateOf(game_state, bot).score.direct_points
                  >= StateOf(game_state.previous.state, bot).score.direct_points

\* C17 as claimed: in every engine of the repository (standard, 24-card,
\* Ace-One, Negative-Ace) the direct_points of a player never go down from
\* one state between tricks to the next, and direct_points and
\* pending_points are never negative.
C17_ScoreBounds == ScoresGrow

\* C17 as amended: in the standard, the 24-card and the Ace-One engine the
\* direct_points of a player never go down from one state between tricks to
\* the next and no points are negative; in the Negative-Ace engine the
\* pending_points are never negative, and the winner's direct_points change
\* by the points of the two cards, an Ace counting -11.
C17_ScoreBoundsButNegativeAce ==
    /\ engine # "NegativeAceGamePlayEngine" => ScoresGrow
    /\ engine = "NegativeAceGamePlayEngine" =>
          /\ \A bot \in Bots : StateOf(game_state, bot).score.pending_points >= 0
          /\ game_state.previous.trick.type = "RegularTrick" =>
                LET before == game_state.previous.state
                    trick  == game_state.previous.trick
                    winner == game_state.leader.implementation
                    won    == game_state.previous.leader_remained_leader
                IN  /\ game_state.leader.score.direct_points =
                          StateOf(before, winner).score.direct_points
                              + StateOf(before, winner).score.pending_points
                              + (IF won THEN Declared(before, trick.leader_move) ELSE 0)
                              + negative_ace_SCORES(LeaderCard(trick.leader_move).rank)
                              + negative_ace_SCORES(trick.follower_move.card.rank)
                    /\ game_state.follower.score.direct_points =
                          StateOf(before, game_state.follower.implementation).score.direct_points

\* the Ace-One engine after a trick led with an Ace: the winner has the
\* Ace-One points of the two cards, fewer than an Ace counts in Schnapsen
C17_Witness ==
    /\ engine = "AceOneGamePlayEngine"
    /\ game_state.previous.trick.type = "RegularTrick"
    /\ LeaderCard(game_state.previous.trick.leader_move).rank = "ACE"
    /\ game_state.leader.score.direct_points =
          StateOf(game_state.previous.state, game_state.leader.implementation).score.direct_points
              + StateOf(game_state.previous.state, game_state.leader.implementation).score.pending_points
              + ace_one_SCORES("ACE")
              + ace_one_SCORES(game_state.previous.trick.follower_move.card.rank)
    /\ game_state.leader.score.direct_points < SCORES("ACE")

\* ------------------------------------------------------------------ C18
\* the card a bot played in a regular trick
PlayedBy(link, bot) ==
    IF link.state.leader.implementation = bot
    THEN LeaderCard(link.trick.leader_move)
    ELSE link.trick.follower_move.card

\* the Jack of the last trump exchange of a history, NoMove when there is none
RECURSIVE LastExchange(_)
LastExchange(h) ==
    IF h = <<>> THEN NoMove
    ELSE IF h[Len(h)].trick.type = "ExchangeTrick" THEN h[Len(h)].trick.exchange
    ELSE LastExchange(SubSeq(h, 1, Len(h) - 1))

\* C18: draw order. After a regular trick played with a talon that is not
\* empty the winner has received the top card of the talon and the loser the
\* next one, and the talon has lost these two cards; after a trump exchange
\* and after a trick played with an empty talon nobody has drawn; in the
\* trick that empties the talon the loser receives the face-up trump card,
\* which is the exchanged Jack when a trump exchange was played.
C18_DrawOrder ==
    game_state.previous # NoPrevious =>
        LET link   == game_state.previous
            before == link.state
            winner == game_state.leader
            loser  == game_state.follower
            kept(bot) == Hand_remove(StateOf(before, bot).hand, PlayedBy(link, bot))
            exchange == LastExchange(History(before))
        IN  /\ (link.trick.type = "RegularTrick" /\ ~Talon_is_empty(before.talon)) =>
                  /\ winner.hand = Append(kept(winner.implementation), before.talon.cards[1])
                  /\ loser.hand = Append(kept(loser.implementation), before.talon.cards[2])
                  /\ game_state.talon.cards
                        = SubSeq(before.talon.cards, 3, Len(before.talon.cards))
            /\ (link.trick.type = "RegularTrick" /\ Talon_is_empty(before.talon)) =>
                  /\ winner.hand = kept(winner.implementation)
                  /\ loser.hand = kept(loser.implementation)
                  /\ Talon_is_empty(game_state.talon)
            /\ link.trick.type = "ExchangeTrick" =>
                  /\ Len(game_state.talon.cards) = Len(before.talon.cards)
                  /\ SubSeq(game_state.talon.cards, 1, Len(before.talon.cards) - 1)
                        = SubSeq(before.talon.cards, 1, Len(before.talon.cards) - 1)
                  /\ game_state.follower.hand = before.follower.hand
                  /\ Range(game_state.leader.hand) \ Range(before.leader.hand)
                        = {Talon_trump_card(before.talon)}
                  /\ Len(game_state.leader.hand) = Len(before.leader.hand)
            /\ (/\ link.trick.type = "RegularTrick"
                /\ ~Talon_is_empty(before.talon)
                /\ Talon_is_empty(game_state.talon)) =>
                  /\ loser.hand[Len(loser.hand)] = Talon_trump_card(before.talon)
                  /\ loser.hand[Len(loser.hand)].suit = trump_suit(game_state)
                  /\ loser.hand[Len(loser.hand)] =
                        IF exchange = NoMove
                        THEN Talon_trump_card(InitialState(game_state).talon)
                        ELSE exchange.jack

\* the trick that empties the talon, after a trump exchange: the loser has
\* drawn the exchanged Jack and the winner the card above it
C18_Witness ==
    /\ game_state.previous.trick.type = "RegularTrick"
    /\ Len(game_state.previous.state.talon.cards) = 2
    /\ Talon_is_empty(game_state.talon)
    /\ HasTrick(game_state, "ExchangeTrick")
    /\ game_state.follower.hand[Len(game_state.follower.hand)].rank = "JACK"
    /\ game_state.leader.hand[Len(game_state.leader.hand)]
          = game_state.previous.state.talon.cards[1]
    /\ error = NoError

\* ------------------------------------------------------------------ C19
\* the cards Phase Two lets the follower play in a state, whatever its talon
PhaseTwoMayPlay(state, lm) ==
    FollowerMayPlay([state EXCEPT !.talon.cards = <<>>], lm)

\* C19: phase transition. As long as the talon holds cards, the trick that
\* empties it included, the follower's move is validated with the Phase One
\* rules (every card of the hand is legal); from the next trick on every
\* follower move is validated with the Phase Two rules; a game that has
\* reached Phase Two never returns to Phase One.
C19_PhaseTransition ==
    LET h == History(game_state)
        after(i) == IF i = Len(h) THEN game_state ELSE h[i + 1].state
    IN  /\ (pc = "AwaitingFollower" /\ leader_move.type \in {"RegularMove", "Marriage"}) =>
              LET moves == get_legal_follower_moves(game_state, leader_move)
              IN  /\ ~Talon_is_empty(game_state.talon) =>
                        /\ game_phase(game_state) = "ONE"
                        /\ moves = from_cards(game_state.follower.hand)
                  /\ Talon_is_empty(game_state.talon) =>
                        /\ game_phase(game_state) = "TWO"
                        /\ Range(moves) =
                              {RegularMove(c) : c \in PhaseTwoMayPlay(game_state, leader_move)}
        /\ \A i \in 1..Len(h) :
              /\ h[i].trick.type = "RegularTrick" =>
                    /\ h[i].trick.follower_move.card \in Range(h[i].state.follower.hand)
                    /\ Talon_is_empty(h[i].state.talon) =>
                          h[i].trick.follower_move.card
                              \in PhaseTwoMayPlay(h[i].state, h[i].trick.leader_move)
              /\ game_phase(h[i].state) = "TWO" => game_phase(after(i)) = "TWO"

\* a game in Phase Two whose talon was emptied by a trick in which the
\* follower played a card that Phase Two would not have allowed
C19_Witness ==
    LET h == History(game_state)
    IN  /\ Len(h) >= 2
        /\ Talon_is_empty(h[Len(h)].state.talon)
        /\ h[Len(h)].trick.type = "RegularTrick"
        /\ h[Len(h) - 1].trick.type = "RegularTrick"
        /\ ~Talon_is_empty(h[Len(h) - 1].state.talon)
        /\ h[Len(h) - 1].trick.follower_move.card
              \notin PhaseTwoMayPlay(h[Len(h) - 1].state, h[Len(h) - 1].trick.leader_move)
        /\ Len(get_legal_follower_moves(h[Len(h)].state, h[Len(h)].trick.leader_move))
              < Len(h[Len(h)].state.follower.hand)

\* ------------------------------------------------------------------ C20
\* the get_move calls made so far, in the order they were made
GetMoveCalls == SelectSeq(events, LAMBDA e : e.op = "get_move")

\* a get_move call of a bot, by what it was given and what it returned
GetMove(bot, lm, move) ==
    [op |-> "get_move", bot |-> bot, leader_move |-> lm, move |-> move, won |-> FALSE]

\* the get_move calls of one finished trick when the leader and then the
\* follower are asked once each, the follower with the leader's answer;
\* asked tells whether the leader was asked at all
TrickCalls(link, asked) ==
    LET the_leader == IF asked
                      THEN <<GetMove(link.state.leader.implementation, NoMove,
                                     TrickLeaderMove(link.trick))>>
                      ELSE <<>>
    IN  IF link.trick.type = "ExchangeTrick" THEN the_leader
        ELSE the_leader \o <<GetMove(link.state.follower.implementation,
                                     link.trick.leader_move, link.trick.follower_move)>>

\* the get_move calls of the finished tricks of a history; first_asked tells
\* whether the leader of the first trick was asked
RECURSIVE HistoryCalls(_, _)
HistoryCalls(h, first_asked) ==
    IF h = <<>> THEN <<>>
    ELSE HistoryCalls(SubSeq(h, 1, Len(h) - 1), first_asked)
            \o TrickCalls(h[Len(h)], Len(h) > 1 \/ first_asked)

\* the get_move calls are those of the finished tricks, followed by those
\* of the trick in progress or of the trick an exception ended
CallsInOrder(first_asked) ==
    LET h      == History(game_state)
        done   == HistoryCalls(h, first_asked)
        calls  == GetMoveCalls
        tail   == SubSeq(calls, Len(done) + 1, Len(calls))
        asked  == h # <<>> \/ first_asked
    IN  /\ Len(calls) >= Len(done)
        /\ SubSeq(calls, 1, Len(done)) = done
        /\ pc \in {"AwaitingLeader", "FixedLeaderMove", "Done"} => tail = <<>>
        /\ pc = "AwaitingFollower" =>
              tail = IF asked
                     THEN <<GetMove(game_state.leader.implementation, NoMove, leader_move)>>
                     ELSE <<>>
        /\ pc = "Error" =>
              IF asked
              THEN /\ error.raised # "declare_winner.assert" => tail # <<>>
                   /\ tail # <<>> =>
                         /\ tail[1].bot = game_state.leader.implementation
                         /\ tail[1].leader_move = NoMove
                         /\ Len(tail) <= Cardinality(Bots)
                         /\ Len(tail) > 1 =>
                               /\ tail[Len(tail)].bot = game_state.follower.implementation
                               /\ tail[Len(tail)].leader_move = tail[1].move
              ELSE /\ Len(tail) <= 1
                   /\ tail # <<>> =>
                         /\ tail[1].bot = game_state.follower.implementation
                         /\ tail[1].leader_move # NoMove

\* C20 as claimed: within every regular trick get_move of the leader is
\* called exactly once and has returned before get_move of the follower is
\* called exactly once, and the leader_move handed to the follower is the
\* move the leader just returned.
C20_LeaderThenFollower == CallsInOrder(TRUE)

\* C20 as amended: within every regular trick that play_trick plays get_move
\* of the leader is called exactly once and has returned before get_move of
\* the follower is called exactly once with the move the leader returned; in
\* the first trick of play_game_from_state with a leader move the leader is
\* not asked, and the follower is called exactly once with the leader move
\* the caller gave.
C20_LeaderThenFollowerUnlessFixed ==
    /\ [](CallsInOrder(entry = "play_game"))
    /\ [][(pc = "FixedLeaderMove" /\ pc' = "AwaitingFollower") =>
              (leader_move' = leader_move /\ events' = events)]_vars

\* a game started with a leader move, two regular tricks played, the second
\* one led with a marriage that was handed to the follower as it is
C20_Witness ==
    LET h == History(game_state)
    IN  /\ entry = "play_game_from_state"
        /\ Len(h) >= 2
        /\ h[1].trick.type = "RegularTrick"
        /\ h[Len(h)].trick.type = "RegularTrick"
        /\ is_marriage(h[Len(h)].trick.leader_move)
        /\ GetMoveCalls[Len(GetMoveCalls)].leader_move = h[Len(h)].trick.leader_move
        /\ GetMoveCalls[1].bot = h[1].state.follower.implementation

\* ------------------------------------------------------------------ C21
\* the positions of the calls of an operation among the calls made so far
CallsOf(op) == {i \in 1..Len(events) : events[i].op = op}

\* C21: game end notification. notify_game_end is called only once
\* declare_winner has returned a winner; then it is called exactly once on
\* each agent, on the winner with won = TRUE and after that on the loser
\* with won = FALSE; these are the last two calls of the game, so no
\* get_move follows them, and nothing is done after them.
C21_GameEndNotification ==
    /\ [](LET n == Len(events)
          IN  /\ pc # "Done" => CallsOf("notify_game_end") = {}
              /\ pc = "Done" =>
                    /\ declare_winner(game_state).outcome = "winner"
                    /\ declare_winner(game_state).winner.implementation = result.winner
                    /\ n >= Cardinality(Bots)
                    /\ CallsOf("notify_game_end") = {n - 1, n}
                    /\ events[n - 1].bot = result.winner
                    /\ events[n - 1].won
                    /\ events[n].bot \in Bots \ {result.winner}
                    /\ ~events[n].won
                    /\ \A i \in CallsOf("get_move") : i < n - 1)
    /\ [][pc # "Done"]_vars

\* a finished game of play_game in which the follower of the last trick won
\* it: the leader of the final state was told first, having asked both
\* agents for moves before
C21_Witness ==
    /\ pc = "Done"
    /\ entry = "play_game"
    /\ ~game_state.previous.leader_remained_leader
    /\ events[Len(events) - 1].bot = game_state.leader.implementation
    /\ events[Len(events) - 1].won
    /\ events[Len(events)].bot = game_state.follower.implementation
    /\ Cardinality(CallsOf("get_move")) >= Cardinality(Bots)

\* ------------------------------------------------------------------ C22
\* what a run of play_game has left when it returned or raised
Run ==
    [pc |-> pc, game_state |-> game_state, events |-> events,
     error |-> error, result |-> result]

\* the get_move calls made on a bot, in the order they were made
GetMoveCallsOn(ev, bot) == SelectSeq(ev, LAMBDA e : e.op = "get_move" /\ e.bot = bot)

\* the two agents are deterministic and the same as in the earlier run: the
\* answer a bot gives to its k-th get_move is the answer it gave to its k-th
\* get_move then
SameAgents ==
    first_run # NoRun =>
        \A bot \in Bots :
            LET now    == GetMoveCallsOn(events', bot)
                before == GetMoveCallsOn(first_run.events, bot)
            IN  \A k \in 1..Len(now) : k <= Len(before) => now[k].move = before[k].move

play_trick_same_agents == play_trick /\ SameAgents

get_follower_move_same_agents == get_follower_move /\ SameAgents

\* the caller keeps what the run left and is about to call play_game once
\* more, with the same two bots and an rng of the same seed
play_game_again ==
    /\ pc \in {"Done", "Error"}
    /\ first_run = NoRun
    /\ first_run' = Run
    /\ pc' = "PlayGame"
    /\ UNCHANGED <<game_state, leader_move, events, error, result, deviations,
                   entry, engine, rng_seed, n_tricks, rounds_played, caller_game_state>>

\* GamePlayEngine.play_game up to its call of play_game_from_state
call_play_game ==
    /\ pc = "PlayGame"
    /\ game_state' = play_game(rng_seed)
    /\ leader_move' = NoMove
    /\ events' = <<>>
    /\ error' = NoError
    /\ result' = NoResult
    /\ deviations' = 0
    /\ pc' = "AwaitingLeader"
    /\ UNCHANGED <<entry, engine, rng_seed, first_run, n_tricks, rounds_played,
                   caller_game_state>>

NextPlayGameTwice ==
    \/ play_trick_same_agents
    \/ get_follower_move_same_agents
    \/ play_game_again
    \/ call_play_game

\* play_game, and then play_game once more with the same agents and seed
SpecPlayGameTwice == InitPlayGame /\ [][NextPlayGameTwice]_vars

IsPrefix(a, b) == Len(a) <= Len(b) /\ SubSeq(b, 1, Len(a)) = a

get_known_cards_of_opponent_hand(state, am_i_leader) ==
    LET opponent_hand == IF am_i_leader THEN state.follower.hand ELSE state.leader.hand
    IN  IF game_phase(state) = "TWO" THEN opponent_hand
        ELSE SelectSeq(opponent_hand, LAMBDA c : c \in past_tricks_cards(state))

\* the accessors of a LeaderPerspective, FollowerPerspective or
\* ExchangeFollowerPerspective on a state, with seen_cards and the known
\* cards of the opponent; lm is the leader move a follower is shown
Accessors(state, am_i_leader, lm) ==
    LET me  == IF am_i_leader THEN state.leader ELSE state.follower
        opp == IF am_i_leader THEN state.follower ELSE state.leader
    IN  [am_i_leader        |-> am_i_leader,
         leader_move        |-> lm,
         get_hand           |-> me.hand,
         get_my_score       |-> me.score,
         get_opponent_score |-> opp.score,
         get_won_cards      |-> me.won_cards,
         get_opponent_won_cards |-> opp.won_cards,
         get_trump_suit     |-> trump_suit(state),
         get_trump_card     |-> IF Talon_is_empty(state.talon) THEN <<>>
                                ELSE <<Talon_trump_card(state.talon)>>,
         get_talon_size     |-> Len(state.talon.cards),
         get_phase          |-> game_phase(state),
         valid_moves        |-> IF am_i_leader THEN get_legal_leader_moves(state)
                                ELSE IF lm.type \in {"RegularMove", "Marriage"}
                                THEN get_legal_follower_moves(state, lm)
                                ELSE <<>>,
         seen_cards         |-> seen_cards(state, am_i_leader,
                                           IF am_i_leader THEN NoMove ELSE lm),
         known_cards        |-> get_known_cards_of_opponent_hand(state, am_i_leader)]

\* a history in which the player keeps the role it has now
RECURSIVE get_game_history_same_role(_, _)
get_game_history_same_role(state, am_i_leader) ==
    IF state.previous.trick.type = "None" THEN <<>>
    ELSE LET current == state.previous
         IN  Append(get_game_history_same_role(current.state, am_i_leader),
                    [perspective |-> Accessors(current.state, am_i_leader,
                                               IF am_i_leader THEN NoMove
                                               ELSE TrickLeaderMove(current.trick)),
                     trick |-> current.trick])

\* PlayerPerspective.get_game_history without its last pair: the
\* perspectives the player had before each past trick, with the trick
RECURSIVE get_game_history(_, _)
get_game_history(state, am_i_leader) ==
    IF state.previous.trick.type = "None" THEN <<>>
    ELSE LET current == state.previous
             was_leader == (am_i_leader = current.leader_remained_leader)
         IN  Append(get_game_history(current.state, was_leader),
                    [perspective |-> Accessors(current.state, was_leader,
                                               IF was_leader THEN NoMove
                                               ELSE TrickLeaderMove(current.trick)),
                     trick |-> current.trick])

\* all a player can obtain through the perspective it is given
Perspective(state, am_i_leader, lm) ==
    [accessors        |-> Accessors(state, am_i_leader, lm),
     get_game_history |-> get_game_history(state, am_i_leader),
     make_assumption  |-> [rand \in 0..(NumShuffles - 1) |->
                              make_assumption(state, am_i_leader,
                                              IF am_i_leader THEN NoMove ELSE lm, rand)]]

\* the same perspective, make_assumption cut down to the state of the trick
\* to play: the previous chain of the returned GameState is left out
PerspectiveWithoutPrevious(state, am_i_leader, lm) ==
    LET full == Perspective(state, am_i_leader, lm)
    IN  [full EXCEPT !.make_assumption =
            [rand \in 0..(NumShuffles - 1) |->
                [full.make_assumption[rand] EXCEPT !.state.previous = NoPrevious]]]

\* a game in which two cards have changed places from the deal on
SwapCard(c, a, b) == IF c = a THEN b ELSE IF c = b THEN a ELSE c

SwapCards(cards, a, b) == [i \in 1..Len(cards) |-> SwapCard(cards[i], a, b)]

SwapBot(bot, a, b) ==
    [bot EXCEPT !.hand = SwapCards(bot.hand, a, b),
                !.won_cards = SwapCards(bot.won_cards, a, b)]

RECURSIVE SwapState(_, _, _)
SwapState(state, a, b) ==
    [leader   |-> SwapBot(state.leader, a, b),
     follower |-> SwapBot(state.follower, a, b),
     talon    |-> [state.talon EXCEPT !.cards = SwapCards(state.talon.cards, a, b)],
     previous |-> IF state.previous.trick.type = "None" THEN NoPrevious
                  ELSE [state.previous EXCEPT !.state = SwapState(state.previous.state, a, b)]]

\* the cards of the opponent's hand and of the talon that the player has
\* not seen and does not know
UnseenCards(state, am_i_leader, lm) ==
    LET opp == IF am_i_leader THEN state.follower ELSE state.leader
    IN  (Range(opp.hand) \cup Range(state.talon.cards))
            \ (seen_cards(state, am_i_leader, lm)
                  \cup Range(get_known_cards_of_opponent_hand(state, am_i_leader)))

\* C23: perspective soundness. In Phase One the player that is asked for a
\* move obtains the same values through its perspective (accessors,
\* seen_cards, known opponent cards, the perspectives of get_game_history
\* and the GameState of make_assumption with its previous chain) in two
\* games that differ only in which of two unseen cards lies where.
C23_PerspectiveSoundness ==
    (pc \in {"AwaitingLeader", "AwaitingFollower"} /\ game_phase(game_state) = "ONE") =>
        LET am_i_leader == pc = "AwaitingLeader"
            unseen == UnseenCards(game_state, am_i_leader, leader_move)
        IN  \A a, b \in unseen :
                Perspective(SwapState(game_state, a, b), am_i_leader, leader_move)
                    = Perspective(game_state, am_i_leader, leader_move)

\* the same without the previous chain of the GameState of make_assumption
C23_SoundWithoutPrevious ==
    (pc \in {"AwaitingLeader", "AwaitingFollower"} /\ game_phase(game_state) = "ONE") =>
        LET am_i_leader == pc = "AwaitingLeader"
            unseen == UnseenCards(game_state, am_i_leader, leader_move)
        IN  \A a, b \in unseen :
                PerspectiveWithoutPrevious(SwapState(game_state, a, b), am_i_leader, leader_move)
                    = PerspectiveWithoutPrevious(game_state, am_i_leader, leader_move)

\* ------------------------------------------------------------------ C24
\* C24: assumption consistency. make_assumption, called by the player that
\* is asked for a move with the leader move it was shown, raises nothing and
\* returns a GameState with the caller's own hand, both scores, the won_cards
\* of both players, the size of the talon and the trump card at its bottom
\* as they are; the opponent's hand has the size it has, and holds every
\* known card of the opponent and every card of the leader move; the cards
\* in the two hands and the talon are still all different; in Phase Two the
\* state is the real one with the bots replaced, whatever rand is.
C24_AssumptionConsistency ==
    pc \in {"AwaitingLeader", "AwaitingFollower"} =>
        \A rand \in 0..(NumShuffles - 1) :
            LET am_i_leader == pc = "AwaitingLeader"
                assumed == make_assumption(game_state, am_i_leader, leader_move, rand)
                me(state)  == IF am_i_leader THEN state.leader ELSE state.follower
                opp(state) == IF am_i_leader THEN state.follower ELSE state.leader
                cards == assumed.state.leader.hand \o assumed.state.follower.hand
                            \o assumed.state.talon.cards
            IN  /\ assumed.raised = ""
                /\ me(assumed.state).hand = me(game_state).hand
                /\ assumed.state.leader.score = game_state.leader.score
                /\ assumed.state.follower.score = game_state.follower.score
                /\ assumed.state.leader.won_cards = game_state.leader.won_cards
                /\ assumed.state.follower.won_cards = game_state.follower.won_cards
                /\ Len(assumed.state.talon.cards) = Len(game_state.talon.cards)
                /\ ~Talon_is_empty(game_state.talon) =>
                      Talon_trump_card(assumed.state.talon) = Talon_trump_card(game_state.talon)
                /\ Len(opp(assumed.state).hand) = Len(opp(game_state).hand)
                /\ Range(get_known_cards_of_opponent_hand(game_state, am_i_leader))
                      \subseteq Range(opp(assumed.state).hand)
                /\ Range(Move_cards(leader_move)) \subseteq Range(opp(assumed.state).hand)
                /\ Cardinality(Range(cards)) = Len(cards)
                /\ Range(cards) = Range(game_state.leader.hand) \cup Range(game_state.follower.hand)
                                     \cup Range(game_state.talon.cards)
                /\ game_phase(game_state) = "TWO" =>
                      assumed.state = copy_with_other_bots(game_state, DummyBots[1], DummyBots[2])

\* the follower of a marriage in Phase One assumes a leader hand that is not
\* the real one and yet holds the Queen and the King it was shown
C24_Witness ==
    /\ pc = "AwaitingFollower"
    /\ is_marriage(leader_move)
    /\ game_phase(game_state) = "ONE"
    /\ game_state.previous # NoPrevious
    /\ \E rand \in 0..(NumShuffles - 1) :
          LET assumed == make_assumption(game_state, FALSE, leader_move, rand)
          IN  /\ assumed.raised = ""
              /\ assumed.state.leader.hand # game_state.leader.hand
              /\ {leader_move.queen_card, leader_move.king_card}
                    \subseteq Range(assumed.state.leader.hand)

\* --------------------------------------- play on a state of make_assumption
\* the largest n a bot gives to play_at_most_n_tricks
MaxTricks == 2

\* the two agents a bot supplies for the seats of a state it plays on
NewBots == <<"new_leader", "new_follower">>

\* PlayerPerspective.get_state_in_phase_two
get_state_in_phase_two(state) ==
    IF game_phase(state) = "TWO"
    THEN [raised |-> "", state |-> copy_with_other_bots(state, DummyBots[1], DummyBots[2])]
    ELSE [raised |-> "get_state_in_phase_two.AssertionError", state |-> state]

\* the GameStates the bot that is asked for a move can get from its
\* perspective: from make_assumption, and in Phase Two from
\* get_state_in_phase_two
PerfectInformationStates ==
    {a.state : a \in {x \in {make_assumption(game_state, pc = "AwaitingLeader",
                                              leader_move, rand) :
                                  rand \in 0..(NumShuffles - 1)}
                                 \cup {get_state_in_phase_two(game_state)} :
                          x.raised = ""}}

\* the leader move a bot gives with such a state: the one it was shown when
\* it follows, and none or one of its valid moves when it leads
LeaderMovesToGive ==
    IF pc = "AwaitingFollower" THEN {leader_move}
    ELSE {NoMove} \cup Range(get_legal_leader_moves(game_state))

\* the bot that is asked for a move in a game of play_game
BotIsAsked == entry = "play_game" /\ pc \in {"AwaitingLeader", "AwaitingFollower"}

\* the start of an engine method on the state a bot passes: the calls made
\* from here on are those of this method
EnterEngine(method, passed, n) ==
    /\ entry' = method
    /\ caller_game_state' = passed
    /\ n_tricks' = n
    /\ rounds_played' = 0
    /\ events' = <<>>
    /\ deviations' = 0
    /\ UNCHANGED <<engine, rng_seed, first_run>>

\* GamePlayEngine.play_at_most_n_tricks up to its first trick: the
\* assertion on n, the copy with the new bots, and the loop left at once
\* when n is 0
play_at_most_n_tricks(method, passed, n) ==
    /\ EnterEngine(method, passed, n)
    /\ leader_move' = NoMove
    /\ IF n < 0
       THEN /\ pc' = "Error"
            /\ error' = [raised |-> "play_at_most_n_tricks.assert", offender |-> ""]
            /\ game_state' = passed
            /\ UNCHANGED result
       ELSE /\ game_state' = copy_with_other_bots(passed, NewBots[1], NewBots[2])
            /\ UNCHANGED error
            /\ IF n = 0
               THEN /\ pc' = "Done"
                    /\ result' = [state |-> game_state', rounds_played |-> 0]
               ELSE /\ pc' = "AwaitingLeader"
                    /\ UNCHANGED result

\* a bot calls play_at_most_n_tricks(state, new_leader, new_follower, n)
call_play_at_most_n_tricks ==
    /\ BotIsAsked
    /\ \E passed \in PerfectInformationStates, n \in -1..MaxTricks :
          play_at_most_n_tricks("play_at_most_n_tricks", passed, n)

\* a bot calls play_one_trick(state, new_leader, new_follower)
call_play_one_trick ==
    /\ BotIsAsked
    /\ \E passed \in PerfectInformationStates :
          play_at_most_n_tricks("play_one_trick", passed, 1)

\* a bot calls play_game_from_state_with_new_bots(state, new_leader,
\* new_follower, leader_move)
call_play_game_from_state_with_new_bots ==
    /\ BotIsAsked
    /\ \E passed \in PerfectInformationStates, given \in LeaderMovesToGive :
          /\ EnterEngine("play_game_from_state_with_new_bots", passed, 0)
          /\ game_state' = copy_with_other_bots(passed, NewBots[1], NewBots[2])
          /\ leader_move' = given
          /\ pc' = IF given = NoMove THEN "AwaitingLeader" ELSE "FixedLeaderMove"
          /\ UNCHANGED <<error, result>>

\* a bot calls play_game_from_state(state, leader_move) on the state as it
\* got it, the dummy bots still in both seats
call_play_game_from_state ==
    /\ BotIsAsked
    /\ \E passed \in PerfectInformationStates, given \in LeaderMovesToGive :
          /\ EnterEngine("play_game_from_state", passed, 0)
          /\ game_state' = passed
          /\ leader_move' = given
          /\ pc' = IF given = NoMove THEN "AwaitingLeader" ELSE "FixedLeaderMove"
          /\ UNCHANGED <<error, result>>

\* a game of play_game in which the agents give their default answers
InitRollout ==
    \E rng \in 0..(NumDeals - 1) :
        /\ engine = "SchnapsenGamePlayEngine"
        /\ rng_seed = rng
        /\ first_run = NoRun
        /\ n_tricks = 0
        /\ rounds_played = 0
        /\ caller_game_state = NoState
        /\ game_state = play_game(rng)
        /\ events = <<>>
        /\ error = NoError
        /\ result = NoResult
        /\ entry = "play_game"
        /\ leader_move = NoMove
        /\ pc = "AwaitingLeader"
        /\ deviations = MaxDeviations

NextRollout ==
    \/ play_trick
    \/ play_trick_with_fixed_leader_move
    \/ get_follower_move
    \/ call_play_at_most_n_tricks
    \/ call_play_one_trick
    \/ call_play_game_from_state_with_new_bots
    \/ call_play_game_from_state

\* play_game, and at any get_move the bot plays on from a state of
\* make_assumption or get_state_in_phase_two with one of the engine methods
SpecRollout == InitRollout /\ [][NextRollout]_vars

\* the engine methods that put the supplied agents in the seats
Substituting == Rollouts \cup {"play_game_from_state_with_new_bots"}

\* C25: a GameState from make_assumption or get_state_in_phase_two has a
\* dummy bot in both seats; play_game_from_state on it ends with the
\* exception of a dummy bot at the first call on a bot, a get_move or a
\* notify_trump_exchange; play_at_most_n_tricks, play_one_trick and
\* play_game_from_state_with_new_bots call the supplied agents only
C25_DummyBots ==
    /\ BotIsAsked =>
          \A passed \in PerfectInformationStates :
              /\ passed.leader.implementation \in Range(DummyBots)
              /\ passed.follower.implementation \in Range(DummyBots)
    /\ (entry = "play_game_from_state" /\ caller_game_state # NoState) =>
          \/ pc \in {"AwaitingLeader", "FixedLeaderMove", "AwaitingFollower"} /\ events = <<>>
          \/ /\ pc = "Error"
             /\ error.raised \in {"_DummyBot.get_move", "_DummyBot.notify_trump_exchange"}
             /\ error.offender \in Range(DummyBots)
             /\ Len(events) = 1
             /\ events[1].bot = error.offender
             /\ events[1].op \in {"get_move", "notify_trump_exchange"}
    /\ entry \in Substituting =>
          /\ \A i \in 1..Len(events) : events[i].bot \in Range(NewBots)
          /\ error.offender \notin Range(DummyBots)
          /\ n_tricks >= 0 =>
                /\ game_state.leader.implementation \in Range(NewBots)
                /\ game_state.follower.implementation \in Range(NewBots)

\* play on the dummy state has failed at the notification of a trump exchange
C25_Witness ==
    /\ entry = "play_game_from_state"
    /\ pc = "Error"
    /\ error.raised = "_DummyBot.notify_trump_exchange"

\* the GameState k tricks before state
RECURSIVE StateBefore(_, _)
StateBefore(state, k) ==
    IF k = 0 THEN state ELSE StateBefore(state.previous.state, k - 1)

\* C26: play_at_most_n_tricks(state, a, b, n) returns (state', k) with
\* 0 <= k <= n, and with k < n only when state' has a winner; every trick,
\* a trump exchange too, is one of the k that lead from the copy of state
\* with the bots a and b to state'; with n = 0 that copy is returned and
\* k = 0; play_one_trick returns the state after one trick, its assertion
\* never failing; and the state that was passed stays as it was
C26_BoundedRollout ==
    /\ [](/\ (entry \in Rollouts /\ n_tricks >= 0) =>
               /\ rounds_played \in 0..n_tricks
               /\ Len(History(game_state))
                      = Len(History(caller_game_state)) + rounds_played
               /\ StateBefore(game_state, rounds_played)
                      = [leader   |-> [caller_game_state.leader
                                          EXCEPT !.implementation = NewBots[1]],
                         follower |-> [caller_game_state.follower
                                          EXCEPT !.implementation = NewBots[2]],
                         talon    |-> caller_game_state.talon,
                         previous |-> caller_game_state.previous]
          /\ (entry = "play_at_most_n_tricks" /\ pc = "Done") =>
               /\ result = [state |-> game_state, rounds_played |-> rounds_played]
               /\ result.rounds_played < n_tricks =>
                     /\ declare_winner(result.state).outcome = "winner"
                     /\ result.rounds_played > 0
               /\ n_tricks = 0 => result.rounds_played = 0
          /\ entry = "play_one_trick" =>
               /\ error.raised # "play_one_trick.assert"
               /\ pc = "Done" => (rounds_played = 1 /\ result = [state |-> game_state]))
    /\ [][(entry \in Rollouts) =>
             (caller_game_state' = caller_game_state /\ n_tricks' = n_tricks)
         ]_vars

\* two tricks asked for and played, one of them a trump exchange
C26_Witness ==
    /\ entry = "play_at_most_n_tricks"
    /\ pc = "Done"
    /\ n_tricks = 2
    /\ result.rounds_played = 2
    /\ \E k \in 0..1 :
          StateBefore(result.state, k).previous.trick.type = "ExchangeTrick"

\* ---------------------------------------------------- score on its own
\* the cards the rank_to_points table of the engine has points for
ScoredCards ==
    IF engine = "SchnapsenGamePlayEngine" THEN Range(get_initial_deck)
    ELSE Range(twenty_four_get_initial_deck)

\* A caller hands a trick of two cards, the two BotStates and a trump suit
\* to the trick scorer of an engine.
InitScore ==
    \E trump \in Range(Suit) :
        /\ engine \in Engines
        /\ rng_seed = 0
        /\ first_run = NoRun
        /\ n_tricks = 0
        /\ rounds_played = 0
        /\ caller_game_state = NoState
        /\ game_state = [leader   |-> BotState("bot1", <<>>),
                         follower |-> BotState("bot2", <<>>),
                         talon    |-> Talon(<<>>, trump),
                         previous |-> NoPrevious]
        /\ pc = "Score"
        /\ leader_move = NoMove
        /\ events = <<>>
        /\ error = NoError
        /\ result = NoResult
        /\ deviations = 0
        /\ entry = "score"

\* one call of trick_scorer.score(trick, leader, follower, trump)
call_score ==
    /\ pc = "Score"
    /\ \E leader_card \in ScoredCards, follower_card \in ScoredCards :
          LET trick  == RegularTrick(RegularMove(leader_card), RegularMove(follower_card))
              scored == score(trick, game_state.leader, game_state.follower,
                              trump_suit(game_state))
          IN  IF scored.ok
              THEN /\ pc' = "Done"
                   /\ result' = [trick       |-> trick,
                                 winner      |-> scored.winner,
                                 loser       |-> scored.loser,
                                 leader_wins |-> scored.leader_wins]
                   /\ UNCHANGED error
              ELSE /\ pc' = "Error"
                   /\ error' = [raised |-> "score.assert", offender |-> ""]
                   /\ UNCHANGED result
    /\ UNCHANGED <<game_state, leader_move, events, deviations, entry, engine,
                   rng_seed, first_run, n_tricks, rounds_played, caller_game_state>>

NextScore == call_score

SpecScore == InitScore /\ [][NextScore]_vars

\* the two cards of the scored trick have the same suit and the same points
SameSuitSamePoints ==
    /\ entry = "score"
    /\ pc = "Done"
    /\ result.trick.leader_move.card.suit = result.trick.follower_move.card.suit
    /\ rank_to_points(result.trick.leader_move.card.rank)
          = rank_to_points(result.trick.follower_move.card.rank)

\* C27: a trick of two cards of the same suit and the same points goes to
\* the leader: score returns leader_wins true and the leader as the winner
C27_TieToLeader ==
    SameSuitSamePoints =>
        /\ result.leader_wins
        /\ result.winner.implementation = game_state.leader.implementation

\* what score does on such a trick: the follower takes it, with both cards
\* and their points
C27_TieToFollower ==
    SameSuitSamePoints =>
        /\ ~result.leader_wins
        /\ result.winner.implementation = game_state.follower.implementation
        /\ result.loser = game_state.leader
        /\ result.winner.won_cards = <<result.trick.leader_move.card,
                                       result.trick.follower_move.card>>

\* ------------------------------------------------------------------ C28
\* C28: in every state of a game of the standard engine a player has 0
\* direct points exactly when that player has won no cards, and a finished
\* game gives 3 game points exactly when the winner has 66 direct points or
\* more and the loser has won no cards
C28_Schwarz ==
    engine = "SchnapsenGamePlayEngine" =>
        /\ \A bot_state \in {game_state.leader, game_state.follower} :
              (bot_state.score.direct_points = 0) <=> (bot_state.won_cards = <<>>)
        /\ pc = "Done" =>
              ((result.points = 3)
                 <=> (/\ game_state.leader.score.direct_points >= WinThreshold
                      /\ result.winner = game_state.leader.implementation
                      /\ game_state.follower.won_cards = <<>>))

\* a game won with 3 game points against a loser who declared a marriage
\* and has its points still pending
C28_Witness ==
    /\ pc = "Done"
    /\ result.points = 3
    /\ game_state.follower.won_cards = <<>>
    /\ game_state.follower.score.pending_points > 0

\* ------------------------------------------------- the deal on its own
\* the number of rng seeds the deal is checked for
NumSeeds == 16

\* the shuffled deck that play_game hands to generateHands
ShuffledDeck == shuffle_deck(deck_generator_get_initial_deck, rng_seed)

\* play_game of any engine is about to deal, with an rng of any seed
InitDeal ==
    /\ engine \in Engines
    /\ rng_seed \in 0..(NumSeeds - 1)
    /\ first_run = NoRun
    /\ n_tricks = 0
    /\ rounds_played = 0
    /\ caller_game_state = NoState
    /\ game_state = NoState
    /\ pc = "Deal"
    /\ leader_move = NoMove
    /\ events = <<>>
    /\ error = NoError
    /\ result = NoResult
    /\ deviations = 0
    /\ entry = "generateHands"

\* play_game: shuffle_deck, generateHands and the first GameState
call_generateHands ==
    /\ pc = "Deal"
    /\ game_state' = play_game(rng_seed)
    /\ pc' = "Done"
    /\ UNCHANGED <<leader_move, events, error, result, deviations, entry, engine,
                   rng_seed, first_run, n_tricks, rounds_played, caller_game_state>>

NextDeal == call_generateHands

SpecDeal == InitDeal /\ [][NextDeal]_vars

\* C29: of the shuffled deck (positions counted from 0) the cards at 0, 2,
\* 4, 6, 8 are the hand of the first leader, those at 1, 3, 5, 7, 9 the
\* hand of the follower, and those from 10 on, in their order, the talon:
\* the card at 10 on top, the last card at the bottom as the trump card;
\* the three parts share no card and together are the deck
C29_Dealing ==
    (entry = "generateHands" /\ pc = "Done") =>
        LET hand1 == game_state.leader.hand
            hand2 == game_state.follower.hand
            rest  == game_state.talon.cards
            size  == Len(ShuffledDeck)
        IN  /\ hand1 = <<ShuffledDeck[1], ShuffledDeck[3], ShuffledDeck[5],
                         ShuffledDeck[7], ShuffledDeck[9]>>
            /\ hand2 = <<ShuffledDeck[2], ShuffledDeck[4], ShuffledDeck[6],
                         ShuffledDeck[8], ShuffledDeck[10]>>
            /\ Len(rest) = size - 10
            /\ \A i \in 1..Len(rest) : rest[i] = ShuffledDeck[10 + i]
            /\ Talon_draw_cards(game_state.talon, 1).draw = <<ShuffledDeck[11]>>
            /\ Talon_trump_card(game_state.talon) = ShuffledDeck[size]
            /\ trump_suit(game_state) = ShuffledDeck[size].suit
            /\ Range(hand1) \cap Range(hand2) = {}
            /\ Range(hand1) \cap Range(rest) = {}
            /\ Range(hand2) \cap Range(rest) = {}
            /\ Range(hand1) \cup Range(hand2) \cup Range(rest)
                  = Range(deck_generator_get_initial_deck)
            /\ Cardinality(Range(deck_generator_get_initial_deck)) = size
            /\ game_state.leader.implementation = "bot1"
            /\ game_state.follower.implementation = "bot2"

\* a deal of the 20 cards of the standard engine from a deck that the
\* shuffle has moved
C29_Witness ==
    /\ entry = "generateHands"
    /\ pc = "Done"
    /\ engine = "SchnapsenGamePlayEngine"
    /\ Len(game_state.talon.cards) = 10
    /\ ShuffledDeck # deck_generator_get_initial_deck

\* ------------------------------------------------- Score on its own
\* the largest number of points, direct or pending, of a Score operand; the
\* operands go down to as many points below 0
MaxOperand == 3

Operands == {Score(d, p) : d \in (0 - MaxOperand)..MaxOperand,
                           p \in (0 - MaxOperand)..MaxOperand}

\* two BotStates hold a Score each: the operands
InitScoreAlgebra ==
    \E a \in Operands, b \in Operands :
        /\ engine = "SchnapsenGamePlayEngine"
        /\ rng_seed = 0
        /\ first_run = NoRun
        /\ n_tricks = 0
        /\ rounds_played = 0
        /\ caller_game_state = NoState
        /\ game_state = [leader   |-> [BotState("bot1", <<>>) EXCEPT !.score = a],
                         follower |-> [BotState("bot2", <<>>) EXCEPT !.score = b],
                         talon    |-> Talon(<<>>, Suit[1]),
                         previous |-> NoPrevious]
        /\ pc = "Score"
        /\ leader_move = NoMove
        /\ events = <<>>
        /\ error = NoError
        /\ result = NoResult
        /\ deviations = 0
        /\ entry = "Score"

\* what a call on a Score leaves alone: Score is a frozen dataclass and both
\* methods build a new Score
ScoreFrame ==
    UNCHANGED <<game_state, leader_move, events, error, deviations, entry, engine,
                rng_seed, first_run, n_tricks, rounds_played, caller_game_state>>

\* leader.score + follower.score
call_Score_add ==
    /\ pc = "Score"
    /\ pc' = "Done"
    /\ result' = [op       |-> "__add__",
                  returned |-> Score_add(game_state.leader.score, game_state.follower.score)]
    /\ ScoreFrame

\* leader.score.redeem_pending_points()
call_redeem_pending_points ==
    /\ pc = "Score"
    /\ pc' = "Done"
    /\ result' = [op       |-> "redeem_pending_points",
                  returned |-> redeem_pending_points(game_state.leader.score)]
    /\ ScoreFrame

\* redeem_pending_points() of the Score that redeem_pending_points returned
call_redeem_pending_points_again ==
    /\ pc = "Done"
    /\ result.op = "redeem_pending_points"
    /\ pc' = "DoneTwice"
    /\ result' = [op       |-> "redeem_pending_points twice",
                  first    |-> result.returned,
                  returned |-> redeem_pending_points(result.returned)]
    /\ ScoreFrame

NextScoreAlgebra ==
    \/ call_Score_add
    \/ call_redeem_pending_points
    \/ call_redeem_pending_points_again

SpecScoreAlgebra == InitScoreAlgebra /\ [][NextScoreAlgebra]_vars

\* C30: the sum of two Scores has the sum of their direct points and the
\* sum of their pending points, is the same in either order, and is the
\* other Score when one is Score(0, 0); redeem_pending_points returns the
\* direct and the pending points together as direct points with no pending
\* points, and returns its own result unchanged; the operands of both stay
\* as they were
C30_ScoreAlgebra ==
    /\ [](entry = "Score" =>
            LET a == game_state.leader.score
                b == game_state.follower.score
            IN  /\ (pc = "Done" /\ result.op = "__add__") =>
                      /\ result.returned.direct_points
                            = a.direct_points + b.direct_points
                      /\ result.returned.pending_points
                            = a.pending_points + b.pending_points
                      /\ result.returned = Score_add(b, a)
                      /\ (b = Score(0, 0)) => (result.returned = a)
                      /\ (a = Score(0, 0)) => (result.returned = b)
                /\ (pc = "Done" /\ result.op = "redeem_pending_points") =>
                      /\ result.returned.pending_points = 0
                      /\ result.returned.direct_points
                            = a.direct_points + a.pending_points
                /\ pc = "DoneTwice" =>
                      /\ result.returned = result.first
                      /\ result.returned.direct_points
                            = a.direct_points + a.pending_points)
    /\ [][(entry = "Score") => (game_state' = game_state)]_vars

\* pending points redeemed a second time
C30_Witness ==
    /\ entry = "Score"
    /\ pc = "DoneTwice"
    /\ game_state.leader.score.pending_points > 0
    /\ result.first # game_state.leader.score

\* ------------------------------------------------- the Talon on its own
\* the most cards of a Talon that a caller builds
MaxTalon == 3

\* the cards a caller builds Talons of and exchanges: of one suit the Jack,
\* the Queen and the King, of another the Jack and the Queen
TalonCards ==
    {get_card("JACK", Suit[1]), get_card("QUEEN", Suit[1]), get_card("KING", Suit[1]),
     get_card("JACK", Suit[2]), get_card("QUEEN", Suit[2])}

\* Talon(cards) of up to MaxTalon different cards, and Talon([], trump_suit)
BuiltTalons ==
    {Talon(cards, "None") :
        cards \in {c \in UNION {[1..size -> TalonCards] : size \in 1..MaxTalon} :
                      \A i, j \in DOMAIN c : c[i] = c[j] => i = j}}
      \cup {Talon(<<>>, suit) : suit \in {Suit[1], Suit[2]}}

\* a caller (a test) holds a Talon and keeps a copy of what it was
InitTalon ==
    \E talon \in BuiltTalons :
        /\ engine = "SchnapsenGamePlayEngine"
        /\ rng_seed = 0
        /\ first_run = NoRun
        /\ n_tricks = 0
        /\ rounds_played = 0
        /\ game_state = [leader   |-> BotState("bot1", <<>>),
                         follower |-> BotState("bot2", <<>>),
                         talon    |-> talon,
                         previous |-> NoPrevious]
        /\ caller_game_state = game_state
        /\ pc = "Talon"
        /\ leader_move = NoMove
        /\ events = <<>>
        /\ error = NoError
        /\ result = NoResult
        /\ deviations = 0
        /\ entry = "Talon"

TalonFrame ==
    UNCHANGED <<leader_move, deviations, entry, engine, rng_seed, first_run,
                n_tricks, rounds_played, caller_game_state>>

\* talon.trump_exchange(new_trump): an assertion fails before anything is
\* changed, or the bottom card is popped, new_trump appended and the old
\* bottom card returned
trump_exchange(new_trump, done) ==
    /\ events' = Append(events, [op |-> "trump_exchange", argument |-> new_trump])
    /\ IF Talon_trump_exchange_ok(game_state.talon, new_trump)
       THEN /\ game_state' = [game_state EXCEPT
                                 !.talon = Talon_trump_exchange(game_state.talon, new_trump)]
            /\ result' = [returned |-> Talon_trump_card(game_state.talon)]
            /\ pc' = done
            /\ UNCHANGED error
       ELSE /\ pc' = "Error"
            /\ error' = [raised |-> "Talon.trump_exchange.assert", offender |-> ""]
            /\ UNCHANGED <<game_state, result>>
    /\ TalonFrame

\* old = talon.trump_exchange(new_trump)
call_trump_exchange ==
    /\ pc = "Talon"
    /\ \E new_trump \in TalonCards : trump_exchange(new_trump, "Exchanged")

\* talon.trump_exchange(old), with the card the first exchange returned
call_trump_exchange_back ==
    /\ pc = "Exchanged"
    /\ trump_exchange(result.returned, "ExchangedBack")

\* talon.draw_cards(amount)
call_draw_cards ==
    /\ pc = "Talon"
    /\ \E amount \in 0..(MaxTalon + 1) :
          /\ events' = Append(events, [op |-> "draw_cards", argument |-> amount])
          /\ IF Talon_draw_cards_ok(game_state.talon, amount)
             THEN /\ game_state' = [game_state EXCEPT
                                       !.talon = Talon_draw_cards(game_state.talon, amount).talon]
                  /\ result' = [returned |-> Talon_draw_cards(game_state.talon, amount).draw]
                  /\ pc' = "Drawn"
                  /\ UNCHANGED error
             ELSE /\ pc' = "Error"
                  /\ error' = [raised |-> "Talon.draw_cards.assert", offender |-> ""]
                  /\ UNCHANGED <<game_state, result>>
    /\ TalonFrame

NextTalon ==
    \/ call_trump_exchange
    \/ call_trump_exchange_back
    \/ call_draw_cards

SpecTalon == InitTalon /\ [][NextTalon]_vars

\* the first trump_exchange of the caller has returned the old trump card
FirstExchangeDone ==
    /\ entry = "Talon"
    /\ Len(events) >= 1
    /\ events[1].op = "trump_exchange"
    /\ pc # "Error" \/ Len(events) = 2

\* C31: after a trump_exchange(j) that returned old, trump_exchange(old)
\* succeeds and the talon is again what it was before the two calls
C31_ExchangeRoundTrip ==
    (FirstExchangeDone /\ Len(events) = 2) =>
        /\ pc = "ExchangedBack"
        /\ game_state.talon = caller_game_state.talon

\* C31 as the code has it: trump_exchange(old) passes its assertions only
\* when old is a Jack, which it is only when the talon's bottom card was
\* the Jack j itself, and then both calls leave the talon as it was; with
\* any other old card the second call fails its Jack assertion and the
\* talon stays as the first call left it: the original talon with j in
\* the place of old at the bottom, the trump suit the same
C31_ExchangeBackNeedsJack ==
    (FirstExchangeDone /\ Len(events) = 2) =>
        LET original == caller_game_state.talon
            old      == events[2].argument
            j        == events[1].argument
        IN  /\ old = Talon_trump_card(original)
            /\ game_state.talon.trump_suit = original.trump_suit
            /\ Len(game_state.talon.cards) = Len(original.cards)
            /\ \A i \in 1..(Len(original.cards) - 1) :
                  game_state.talon.cards[i] = original.cards[i]
            /\ IF old.rank = "JACK"
               THEN /\ pc = "ExchangedBack"
                    /\ old = j
                    /\ game_state.talon = original
               ELSE /\ pc = "Error"
                    /\ error.raised = "Talon.trump_exchange.assert"
                    /\ Talon_trump_card(game_state.talon) = j
                    /\ game_state.talon # original

\* the Jack was exchanged for a Queen or a King, and the exchange back failed
C31_Witness ==
    /\ FirstExchangeDone
    /\ Len(events) = 2
    /\ pc = "Error"
    /\ events[2].argument.rank # "JACK"
    /\ Len(caller_game_state.talon.cards) = MaxTalon

is_legal_leader_move_by_membership(state, move) ==
    move \in Range(get_legal_leader_moves(state))

\* C33: in every state in which the leader is asked for a move, and for
\* every move an agent can construct, the override is_legal_leader_move
\* accepts the move exactly when it is one of get_legal_leader_moves
C33_ValidatorAgreement ==
    pc = "AwaitingLeader" =>
        \A move \in AllMoves :
            is_legal_leader_move(game_state, move)
                <=> is_legal_leader_move_by_membership(game_state, move)

\* C33, where the two agree: on every move but a TrumpExchange with a Jack
\* that is not of the trump suit; that one the override accepts whenever the
\* leader holds the Jack and the talon is not empty, and the list never
\* has it
C33_AgreementButOtherJacks ==
    pc = "AwaitingLeader" =>
        \A move \in AllMoves :
            IF is_trump_exchange(move) /\ move.jack.suit # trump_suit(game_state)
            THEN /\ ~is_legal_leader_move_by_membership(game_state, move)
                 /\ is_legal_leader_move(game_state, move)
                       <=> (/\ move.jack \in Range(game_state.leader.hand)
                            /\ ~Talon_is_empty(game_state.talon))
            ELSE is_legal_leader_move(game_state, move)
                    <=> is_legal_leader_move_by_membership(game_state, move)

\* ------------------------------------------------------------------ C34
\* C34: play_trick and play_trick_with_fixed_leader_move return a new
\* GameState whose previous holds the trick and the GameState they were
\* given, whole and as it was (hands, talon, scores, won_cards and its own
\* previous); so the history of the new state is the history of the old one
\* with one Previous added, and no state of the chain is ever changed
C34_HistoryAppendOnly ==
    [][(game_state' # game_state) =>
          /\ game_state'.previous.trick.type \in {"RegularTrick", "ExchangeTrick"}
          /\ game_state'.previous.state = game_state
          /\ Len(History(game_state')) = Len(History(game_state)) + 1
          /\ \A i \in 1..Len(History(game_state)) :
                History(game_state')[i] = History(game_state)[i]
          /\ \A i \in 1..Len(History(game_state)) :
                StateBefore(game_state', i + 1) = StateBefore(game_state, i)
      ]_vars

\* three tricks and more are played, a trump exchange among them, and the
\* first state of the chain is the deal
C34_Witness ==
    /\ Len(History(game_state)) >= 3
    /\ \E i \in 1..Len(History(game_state)) :
          History(game_state)[i].trick.type = "ExchangeTrick"
    /\ InitialState(game_state).previous = NoPrevious
    /\ Len(InitialState(game_state).talon.cards) = 10

\* ------------------------------------------------------------------ C35
\* PlayerPerspective.get_game_history: the pairs of the past tricks and
\* then the pair (self, None)
get_game_history_with_current(state, am_i_leader, lm) ==
    Append(get_game_history(state, am_i_leader),
           [perspective |-> Accessors(state, am_i_leader, lm),
            trick       |-> [type |-> "None"]])

\* C35: for the player in either seat of any state of a game,
\* get_game_history is one pair per trick played, oldest first, and then
\* the pair of the present perspective with no trick; the perspective of
\* the pair of a trick has the role this player's bot had in the state
\* before that trick and shows the hand, score and won cards of that bot in
\* that state; and where the trick is a trump exchange and the player
\* followed, its valid_moves is empty
C35_GameHistory ==
    \A am_i_leader \in BOOLEAN :
        LET me      == IF am_i_leader THEN game_state.leader.implementation
                       ELSE game_state.follower.implementation
            shown   == IF am_i_leader THEN NoMove ELSE leader_move
            pairs   == get_game_history_with_current(game_state, am_i_leader, shown)
            played  == History(game_state)
        IN  /\ Len(pairs) = Len(played) + 1
            /\ pairs[Len(pairs)].trick.type = "None"
            /\ pairs[Len(pairs)].perspective.am_i_leader = am_i_leader
            /\ pairs[Len(pairs)].perspective.get_hand
                  = IF am_i_leader THEN game_state.leader.hand ELSE game_state.follower.hand
            /\ \A i \in 1..Len(played) :
                  LET before  == StateBefore(game_state, Len(played) - i + 1)
                      led     == before.leader.implementation = me
                      mine    == IF led THEN before.leader ELSE before.follower
                      its     == pairs[i].perspective
                  IN  /\ before = played[i].state
                      /\ mine.implementation = me
                      /\ pairs[i].trick = played[i].trick
                      /\ its.am_i_leader = led
                      /\ its.get_hand = mine.hand
                      /\ its.get_my_score = mine.score
                      /\ its.get_won_cards = mine.won_cards
                      /\ (played[i].trick.type = "ExchangeTrick" /\ ~led)
                            => its.valid_moves = <<>>
                      /\ (played[i].trick.type = "RegularTrick" /\ ~led)
                            => its.leader_move = played[i].trick.leader_move

\* the follower of a state has a history of three tricks or more in which
\* it led a trick, followed a regular trick and followed a trump exchange
C35_Witness ==
    /\ Len(History(game_state)) >= 3
    /\ LET pairs == get_game_history(game_state, FALSE)
       IN  /\ \E i \in 1..Len(pairs) : pairs[i].perspective.am_i_leader
           /\ \E i \in 1..Len(pairs) :
                 /\ ~pairs[i].perspective.am_i_leader
                 /\ pairs[i].trick.type = "RegularTrick"
           /\ \E i \in 1..Len(pairs) :
                 /\ ~pairs[i].perspective.am_i_leader
                 /\ pairs[i].trick.type = "ExchangeTrick"

\* ------------------------------------------------------------------ C36
\* the leader moves a perspective can hand to make_assumption: none, or, for
\* the follower that is asked, the leader move it was shown
LeaderMovesToAssume(am_i_leader) ==
    {NoMove} \cup (IF ~am_i_leader /\ pc = "AwaitingFollower" THEN {leader_move} ELSE {})

\* the cards make_assumption deals again: the unseen cards of the talon, of
\* the opponent's hand and of the whole deck
UnseenToDeal(state, am_i_leader, lm) ==
    LET seen == seen_cards(state, am_i_leader, lm)
        opponent_hand == IF am_i_leader THEN state.follower.hand ELSE state.leader.hand
    IN  [talon |-> SelectSeq(state.talon.cards, LAMBDA card : card \notin seen),
         opponent_hand |-> SelectSeq(opponent_hand, LAMBDA card : card \notin seen),
         deck |-> SelectSeq(deck_generator_get_initial_deck, LAMBDA card : card \notin seen)]

\* C36: make_assumption never places a card twice. In every state of
\* play_game in which a bot is asked, for the perspective of either seat,
\* without a leader move and (for the follower) with the leader move it was
\* shown, and for every shuffle: the unseen talon cards and the unseen cards
\* of the opponent's hand are together as many as the unseen cards of the
\* deck, no assertion of make_assumption fails (so every shuffled card is
\* handed out), and in the returned state every card of the deck lies in
\* exactly one place.
C36_AssumptionPlacesOnce ==
    pc \in {"AwaitingLeader", "AwaitingFollower"} =>
        \A am_i_leader \in BOOLEAN :
            \A lm \in LeaderMovesToAssume(am_i_leader) :
                \A rand \in 0..(NumShuffles - 1) :
                    LET unseen  == UnseenToDeal(game_state, am_i_leader, lm)
                        assumed == make_assumption(game_state, am_i_leader, lm, rand)
                    IN  /\ Len(unseen.talon) + Len(unseen.opponent_hand) = Len(unseen.deck)
                        /\ assumed.raised = ""
                        /\ Len(CardLocations(assumed.state)) = Len(deck_generator_get_initial_deck)
                        /\ \A c \in Range(deck_generator_get_initial_deck) :
                              Occurrences(CardLocations(assumed.state), c) = 1

\* the follower of a trick after a trump exchange and some won tricks, in
\* Phase One, assumes a state that is not the real one: cards were dealt again
C36_Witness ==
    /\ pc = "AwaitingFollower"
    /\ game_phase(game_state) = "ONE"
    /\ HasTrick(game_state, "ExchangeTrick")
    /\ game_state.leader.won_cards \o game_state.follower.won_cards # <<>>
    /\ \E rand \in 0..(NumShuffles - 1) :
          LET assumed == make_assumption(game_state, FALSE, leader_move, rand)
          IN  /\ assumed.raised = ""
              /\ assumed.state.leader.hand # game_state.leader.hand
              /\ assumed.state.talon.cards # game_state.talon.cards
              /\ Len(UnseenToDeal(game_state, FALSE, leader_move).deck) > 1

\* ------------------------------------------------------------------ C37
\* C37: a trump-exchange trick changes two card positions only. The Jack
\* leaves the leader's hand and lies at the bottom of the talon, the card
\* that lay there is in the leader's hand; the size of the talon, its other
\* cards and their order, the other cards of the leader's hand, the
\* follower (hand, score, won_cards), the leader's score and won_cards and
\* the seats are as before, no card is drawn, and the ExchangeTrick linked
\* to the state before holds the Jack and the displaced trump card.
C37_ExchangeFrame ==
    [][ExchangeTrickStep =>
          LET trick == game_state'.previous.trick
              jack  == trick.exchange.jack
              old   == Talon_trump_card(game_state.talon)
              size  == Len(game_state.talon.cards)
          IN  /\ jack = get_card("JACK", trump_suit(game_state))
              /\ trick.trump_card = old
              /\ old # jack
              /\ game_state'.previous.state = game_state
              /\ game_state'.previous.leader_remained_leader
              /\ jack \in Range(game_state.leader.hand)
              /\ jack \notin Range(game_state'.leader.hand)
              /\ old \in Range(game_state'.leader.hand)
              /\ Len(game_state'.leader.hand) = Len(game_state.leader.hand)
              /\ SelectSeq(game_state'.leader.hand, LAMBDA c : c # old)
                    = SelectSeq(game_state.leader.hand, LAMBDA c : c # jack)
              /\ Len(game_state'.talon.cards) = size
              /\ size >= 2
              /\ game_state'.talon.cards[size] = jack
              /\ SubSeq(game_state'.talon.cards, 1, size - 1)
                    = SubSeq(game_state.talon.cards, 1, size - 1)
              /\ game_state'.talon.trump_suit = game_state.talon.trump_suit
              /\ game_state'.follower = game_state.follower
              /\ game_state'.leader.score = game_state.leader.score
              /\ game_state'.leader.won_cards = game_state.leader.won_cards
              /\ game_state'.leader.implementation = game_state.leader.implementation
    ]_vars

\* an exchange made after a trick was won, with points already booked and a
\* leader's hand in which the Jack was not the last card
C37_Witness ==
    /\ game_state.previous.trick.type = "ExchangeTrick"
    /\ game_state.previous.state.previous # NoPrevious
    /\ game_state.leader.score.direct_points > 0
    /\ game_state.leader.won_cards # <<>>
    /\ LET before == game_state.previous.state.leader.hand
       IN  before[Len(before)] # game_state.previous.trick.exchange.jack

\* ------------------------------------------------------------------ C38
\* the validator offers the leader of the state a trump exchange
OffersTrumpExchange(state) ==
    \E i \in 1..Len(get_legal_leader_moves(state)) :
        get_legal_leader_moves(state)[i].type = "TrumpExchange"

\* the number of ExchangeTricks in the history of the state
ExchangeTricks(state) ==
    Cardinality({i \in 1..Len(History(state)) : History(state)[i].trick.type = "ExchangeTrick"})

\* after an ExchangeTrick: the trump Jack is the bottom card of the talon as
\* long as the talon has cards, and in a hand or among the won cards after
\* the draw that emptied it; no trump exchange is offered
AfterExchange(state) ==
    LET jack == get_card("JACK", trump_suit(state))
    IN  /\ ExchangeTricks(state) = 1
        /\ ~Talon_is_empty(state.talon) =>
              /\ Talon_trump_card(state.talon) = jack
              /\ jack \notin Range(state.leader.hand) \cup Range(state.follower.hand)
        /\ jack \in Range(state.leader.hand) \cup Range(state.follower.hand) =>
              Talon_is_empty(state.talon)
        /\ ~OffersTrumpExchange(state)

\* C38: at most one trump exchange per game. From the state an ExchangeTrick
\* leads to and in every later state of the game, the history holds that
\* one ExchangeTrick only, the trump Jack lies at the bottom of the talon
\* until the draw that empties the talon, and the validator offers the
\* leader no TrumpExchange; so exchanges cannot be repeated to stall a game.
C38_OneExchange ==
    [](HasTrick(game_state, "ExchangeTrick") => [](AfterExchange(game_state)))

\* after an exchange the talon was drawn empty and the trump Jack is back in
\* the hand of the player that leads, who is offered no exchange
C38_Witness ==
    /\ pc = "AwaitingLeader"
    /\ HasTrick(game_state, "ExchangeTrick")
    /\ Talon_is_empty(game_state.talon)
    /\ get_card("JACK", trump_suit(game_state)) \in Range(game_state.leader.hand)
    /\ ~OffersTrumpExchange(game_state)

\* ------------------------------------------------------------------ C39
\* the TrumpExchange moves the validator offers the leader of the state
OfferedTrumpExchanges(state) ==
    {move \in Range(get_legal_leader_moves(state)) : move.type = "TrumpExchange"}

\* C39: no Talon assertion is reachable from a deal of the engine. In every
\* state of a game of any engine (20 cards or 24 cards) the talon holds an
\* even number of cards, at most the deck less the two hands, so a talon
\* that is not empty supplies the two cards of a draw; every TrumpExchange
\* the validator offers is of the Jack of the trump suit, finds at least 2
\* cards on the talon and passes every check of play_trump_exchange; and no
\* game ended in an assertion of Talon.draw_cards or Talon.trump_exchange.
C39_TalonParity ==
    /\ Len(game_state.talon.cards) % 2 = 0
    /\ Len(game_state.talon.cards) <= Len(deck_generator_get_initial_deck) - 2 * max_size
    /\ ~Talon_is_empty(game_state.talon) => Talon_draw_cards_ok(game_state.talon, 2)
    /\ \A move \in OfferedTrumpExchanges(game_state) :
          /\ move.jack = get_card("JACK", trump_suit(game_state))
          /\ Len(game_state.talon.cards) >= 2
          /\ Talon_trump_exchange_ok(game_state.talon, move.jack)
          /\ play_trump_exchange_raises(game_state, move) = ""
    /\ error.raised \notin {"Talon.draw_cards.assert", "Talon.trump_exchange.assert"}

\* the 24-card game after a regular trick and its draw: the talon is
\* smaller than dealt, and the leader is offered the exchange
C39_Witness ==
    /\ engine = "TwentyFourSchnapsenGamePlayEngine"
    /\ pc = "AwaitingLeader"
    /\ game_state.previous.trick.type = "RegularTrick"
    /\ Len(game_state.talon.cards) < Len(twenty_four_get_initial_deck) - 2 * max_size
    /\ OfferedTrumpExchanges(game_state) # {}

\* ------------------------------------------------------------------ MiniMaxBot, AlphaBetaBot
\* float("inf"): above every game value
Infinity == 1000

\* the two OneFixedMoveBot objects value() plays a trick with
OneFixedMoveBots == <<"OneFixedMoveBot.leader", "OneFixedMoveBot.follower">>

\* engine.play_one_trick / play_at_most_n_tricks(n=1) with the two
\* OneFixedMoveBots: the state after the trick of the two moves
TrickOfFixedMoves(state, the_leader_move, follower_move) ==
    apply_regular_trick(copy_with_other_bots(state, OneFixedMoveBots[1], OneFixedMoveBots[2]),
                        RegularTrick(the_leader_move, follower_move)).state

\* my_perspective.valid_moves() of the Leader- or FollowerPerspective
valid_moves(state, the_leader_move) ==
    IF the_leader_move = NoMove THEN get_legal_leader_moves(state)
    ELSE get_legal_follower_moves(state, the_leader_move)

\* the points of a finished game as value() signs them
SignedPoints(winning_info, maximizing) ==
    LET follower_wins == winning_info.winner.implementation = OneFixedMoveBots[2]
        points        == IF ~follower_wins THEN -winning_info.points ELSE winning_info.points
    IN  IF ~maximizing THEN -points ELSE points

\* who maximizes at the next trick: leader_stayed flips the role
next_maximizing(new_game_state, maximizing) ==
    IF new_game_state.leader.implementation = OneFixedMoveBots[1] THEN ~maximizing
    ELSE maximizing

\* the test that ends the loop over the moves one unit too early
prune_early(alpha, beta) ==
    beta <= alpha + 1

\* AlphaBetaBot.value: if beta <= alpha: break
prune(alpha, beta) ==
    beta <= alpha

Max(a, b) == IF a >= b THEN a ELSE b

Min(a, b) == IF a <= b THEN a ELSE b

\* the value of an expression, worked out once and then named: the element
\* of a set of one
Only(set) == CHOOSE x \in set : TRUE

\* What value() returns is (value, move); raised names the assertion that
\* failed instead, and calls counts the value() calls made (what the timing
\* of the tests measures).
RECURSIVE MiniMaxBot_value(_, _, _)
RECURSIVE MiniMaxBot_move_value(_, _, _, _)
RECURSIVE MiniMaxBot_for(_, _, _, _, _, _)

\* MiniMaxBot.value, body of the loop: the value of one move
MiniMaxBot_move_value(state, the_leader_move, maximizing, move) ==
    IF the_leader_move = NoMove
    THEN MiniMaxBot_value(state, move, ~maximizing)
    ELSE Only({
        LET winning_info == declare_winner(new_game_state)
        IN  IF winning_info.outcome = "AssertionError"
            THEN [value |-> 0, move |-> NoMove, raised |-> "declare_winner.assert", calls |-> 0]
            ELSE IF winning_info.outcome = "winner"
            THEN [value |-> SignedPoints(winning_info, maximizing), move |-> NoMove,
                  raised |-> "", calls |-> 0]
            ELSE MiniMaxBot_value(new_game_state, NoMove,
                                  next_maximizing(new_game_state, maximizing))
        : new_game_state \in {TrickOfFixedMoves(state, the_leader_move, move)}})

\* MiniMaxBot.value, the loop over valid_moves from the i-th move on
MiniMaxBot_for(state, the_leader_move, maximizing, moves, i, best) ==
    IF i > Len(moves) THEN best
    ELSE Only({
        LET better == IF maximizing THEN child.value > best.value
                      ELSE child.value < best.value
            calls  == best.calls + child.calls
        IN  IF child.raised # ""
            THEN [child EXCEPT !.calls = calls]
            ELSE Only({MiniMaxBot_for(state, the_leader_move, maximizing, moves, i + 1, best1)
                       : best1 \in {IF better
                                    THEN [value |-> child.value, move |-> moves[i],
                                          raised |-> "", calls |-> calls]
                                    ELSE [best EXCEPT !.calls = calls]}})
        : child \in {MiniMaxBot_move_value(state, the_leader_move, maximizing, moves[i])}})

\* MiniMaxBot.value
MiniMaxBot_value(state, the_leader_move, maximizing) ==
    Only({
        IF best.raised = "" /\ best.move = NoMove
        THEN [best EXCEPT !.raised = "MiniMaxBot.value.assert"]
        ELSE best
        : best \in {Only({MiniMaxBot_for(state, the_leader_move, maximizing, moves, 1,
                                         [value |-> IF maximizing THEN -Infinity ELSE Infinity,
                                          move |-> NoMove, raised |-> "", calls |-> 1])
                          : moves \in {valid_moves(state, the_leader_move)}})}})

RECURSIVE AlphaBetaBot_value(_, _, _, _, _)
RECURSIVE AlphaBetaBot_move_value(_, _, _, _, _, _)
RECURSIVE AlphaBetaBot_for(_, _, _, _, _, _, _, _)

\* AlphaBetaBot.value, body of the loop: the value of one move
AlphaBetaBot_move_value(state, the_leader_move, maximizing, move, alpha, beta) ==
    IF the_leader_move = NoMove
    THEN AlphaBetaBot_value(state, move, ~maximizing, alpha, beta)
    ELSE Only({
        LET winning_info == declare_winner(new_game_state)
        IN  IF winning_info.outcome = "AssertionError"
            THEN [value |-> 0, move |-> NoMove, raised |-> "declare_winner.assert", calls |-> 0]
            ELSE IF winning_info.outcome = "winner"
            THEN [value |-> SignedPoints(winning_info, maximizing), move |-> NoMove,
                  raised |-> "", calls |-> 0]
            ELSE AlphaBetaBot_value(new_game_state, NoMove,
                                    next_maximizing(new_game_state, maximizing), alpha, beta)
        : new_game_state \in {TrickOfFixedMoves(state, the_leader_move, move)}})

\* AlphaBetaBot.value, the loop over valid_moves from the i-th move on, with
\* the break of the pruning
AlphaBetaBot_for(state, the_leader_move, maximizing, moves, i, best, alpha, beta) ==
    IF i > Len(moves) THEN best
    ELSE Only({
        LET better == IF maximizing THEN child.value > best.value
                      ELSE child.value < best.value
            calls  == best.calls + child.calls
        IN  IF child.raised # ""
            THEN [child EXCEPT !.calls = calls]
            ELSE Only({
                IF prune(window[1], window[2]) THEN best1
                ELSE AlphaBetaBot_for(state, the_leader_move, maximizing, moves, i + 1,
                                      best1, window[1], window[2])
                : best1 \in {IF better
                             THEN [value |-> child.value, move |-> moves[i],
                                   raised |-> "", calls |-> calls]
                             ELSE [best EXCEPT !.calls = calls]},
                  window \in {IF maximizing
                              THEN <<Max(alpha, IF better THEN child.value ELSE best.value),
                                     beta>>
                              ELSE <<alpha,
                                     Min(beta, IF better THEN child.value ELSE best.value)>>}})
        : child \in {AlphaBetaBot_move_value(state, the_leader_move, maximizing, moves[i],
                                             alpha, beta)}})

\* AlphaBetaBot.value
AlphaBetaBot_value(state, the_leader_move, maximizing, alpha, beta) ==
    Only({AlphaBetaBot_for(state, the_leader_move, maximizing, moves, 1,
                           [value |-> IF maximizing THEN -Infinity ELSE Infinity,
                            move |-> NoMove, raised |-> "", calls |-> 1],
                           alpha, beta)
          : moves \in {valid_moves(state, the_leader_move)}})

\* ------------------------------------------------------------------ C40
\* the most cards a hand of the Phase Two states holds
MaxHand == 3

\* the direct points the players of the Phase Two states have
SearchScores == {0, 20, 45}

\* a GameState of Phase Two as the tests build it: two hands of the same
\* size out of a shuffled deck, an empty talon with a trump suit, scores
PhaseTwoState(seed, size, trump, leader_points, follower_points) ==
    LET cards == shuffle_deck(get_initial_deck, seed)
    IN  [leader   |-> [BotState(DummyBots[1], [i \in 1..size |-> cards[2 * i - 1]])
                          EXCEPT !.score = Score(leader_points, 0)],
         follower |-> [BotState(DummyBots[2], [i \in 1..size |-> cards[2 * i]])
                          EXCEPT !.score = Score(follower_points, 0)],
         talon    |-> Talon(<<>>, trump),
         previous |-> NoPrevious]

\* a test has built a Phase Two state and the leader_move it will pass:
\* None for the leader's role, a legal leader move for the follower's
InitSearch ==
    /\ engine = "SchnapsenGamePlayEngine"
    /\ rng_seed \in 0..(NumSeeds - 1)
    /\ first_run = NoRun
    /\ n_tricks = 0
    /\ rounds_played = 0
    /\ \E size \in 1..MaxHand, trump \in Range(Suit),
          leader_points \in SearchScores, follower_points \in SearchScores :
          game_state = PhaseTwoState(rng_seed, size, trump, leader_points, follower_points)
    /\ caller_game_state = game_state
    /\ leader_move \in {NoMove} \cup Range(get_legal_leader_moves(game_state))
    /\ pc = "Search"
    /\ events = <<>>
    /\ error = NoError
    /\ result = NoResult
    /\ deviations = 0
    /\ entry = "value"

\* one bot's value() is called; the second call is the other bot's, with
\* the same maximizing
call_value(bot, maximizing, returned) ==
    /\ pc = "Search"
    /\ IF events = <<>> THEN TRUE
       ELSE events[1].bot # bot /\ events[1].maximizing = maximizing
    /\ events' = Append(events, [op |-> "value", bot |-> bot, maximizing |-> maximizing,
                                  returned |-> returned])
    /\ pc' = IF Len(events) = 1 THEN "Done" ELSE "Search"
    /\ UNCHANGED <<game_state, leader_move, error, result, deviations, entry, engine,
                   rng_seed, first_run, n_tricks, rounds_played, caller_game_state>>

\* minimaxbot.value(state, engine, leader_move, maximizing)
call_MiniMaxBot_value ==
    \E maximizing \in BOOLEAN :
        call_value("MiniMaxBot", maximizing,
                   MiniMaxBot_value(game_state, leader_move, maximizing))

\* alphabetabot.value(state, engine, leader_move, maximizing): alpha and
\* beta take their defaults
call_AlphaBetaBot_value ==
    \E maximizing \in BOOLEAN :
        call_value("AlphaBetaBot", maximizing,
                   AlphaBetaBot_value(game_state, leader_move, maximizing, -Infinity, Infinity))

NextSearch ==
    \/ call_MiniMaxBot_value
    \/ call_AlphaBetaBot_value

SpecSearch == InitSearch /\ [][NextSearch]_vars

\* C40: pruning does not change the result. For a Phase Two GameState and
\* either role (leader_move None, or a leader move to follow), maximizing or
\* not, AlphaBetaBot.value and MiniMaxBot.value raise nothing and return the
\* same value and the same move; the value is a number of game points with
\* a sign, and the move is one of the valid moves.
C40_PruningKeepsResult ==
    /\ \A i \in 1..Len(events) :
          /\ events[i].returned.raised = ""
          /\ events[i].returned.value \in {-3, -2, -1, 1, 2, 3}
          /\ events[i].returned.move \in Range(valid_moves(game_state, leader_move))
    /\ Len(events) = 2 =>
          /\ events[1].returned.value = events[2].returned.value
          /\ events[1].returned.move = events[2].returned.move

\* both were called on a state with hands of MaxHand cards, for the leader's
\* role; the alpha-beta search cut branches off: it made fewer calls of
\* value() than the exhaustive one
C40_Witness ==
    /\ Len(events) = 2
    /\ leader_move = NoMove
    /\ Len(game_state.leader.hand) = MaxHand
    /\ \E i, j \in 1..2 :
          /\ events[i].bot = "AlphaBetaBot"
          /\ events[j].bot = "MiniMaxBot"
          /\ events[i].returned.calls < events[j].returned.calls
          /\ events[i].returned.value = events[j].returned.value
          /\ events[i].returned.move = events[j].returned.move

====
